---- MODULE Spec2Model ----
(***************************************************************************)
(* A model of the LGRPC runtime (src/LGRPC): the client call multiplexer   *)
(* (client.go), the gob codec (codec/codec.go), the server dispatcher      *)
(* (server.go) and the method registry (service.go).                       *)
(*                                                                         *)
(* Go strings that the code takes apart are sequences of atoms: the        *)
(* service method "Foo.Echo" is <<"Foo", ".", "Echo">>.  A nil error is    *)
(* the string "nil".                                                       *)
(***************************************************************************)
EXTENDS Integers, Sequences, FiniteSets, TLC

(***************************************************************************)
(* Bounds of the model.                                                    *)
(***************************************************************************)
\* callers that each issue one Client.Call on the connection
NCalls == 2
\* calls of Server.Register
MaxReg == 2
\* requests the peer of the server may put on the wire
MaxReq == 2

(***************************************************************************)
(* Program constants.                                                      *)
(***************************************************************************)
\* const MagicNumber = 0x3bef5c
MagicNumber == 3927900
\* Client.Call: make(chan *Call, 1)
DoneCap == 1
\* newClientCodec: seq: 1
FirstSeq == 1
\* DefaultOption.ConnectTimeout, in seconds
DefaultConnectTimeout == 10

NoErr == "nil"
ErrShutdown == "ErrShutdown"
NoCall == 0
Calls == 1 .. NCalls
Reqs == 1 .. MaxReq
None == "none"

VARIABLES
  \* ---- client (client.go) ----
  cliState,      \* "none": not dialled, "up": newClientCodec returned, "dialfail"
  ccKind,        \* the codec.Codec behind client.cc: "gob" or "iface" (any other)
  seq,           \* Client.seq
  pending,       \* Client.pending: sequence number -> call
  closing,       \* Client.closing
  shutdown,      \* Client.shutdown
  sendingOwner,  \* holder of Client.sending
  header,        \* Client.header, the shared request header
  callSeq,       \* Call.Seq of each caller's call
  callErr,       \* Call.Error
  callReply,     \* what Call.Reply holds
  doneBuf,       \* items buffered in Call.Done
  doneSent,      \* sends completed on Call.Done
  pcCall,        \* position of each caller in Client.Call
  callRet,       \* what Client.Call returned
  removedBy,     \* history: who deleted the call's entry from pending
  issued,        \* history: the numbers registerCall returned, in order
  writeLog,      \* history: the Seq of every header cc.Write accepted, in order
  answered,      \* history: the sequence numbers the peer has answered
  pcRecv,        \* position of Client.receive
  rh,            \* the header receive read
  rcall,         \* the call receive removed for it
  rerr,          \* err of the receive loop
  closeRet,      \* what the last Client.Close returned
  \* ---- the connection ----
  c2s,           \* frames in flight from client to server
  s2c,           \* header+body messages in flight from server to client
  cliClosed,     \* the client's end was closed
  srvClosed,     \* the server's end was closed, or the connection failed
  \* ---- server (server.go, service.go) ----
  serviceMap,    \* Server.serviceMap: service name -> stored value
  regLog,        \* history: receiver and result of every Register
  srvState,      \* AwaitingHandshake, Serving, Draining, Closed, Panicked
  srvLog,        \* history: one record per loop iteration of serverCodec
  srvOpt,        \* the Option ServeConn decoded, or NoOpt
  wg,            \* the connection's WaitGroup counter
  peerSeq,       \* requests the peer of the server has sent so far
  \* ---- codec round trip (codec/codec.go) ----
  cdPc, cdH, cdB, cdWire, cdClosed, cdRH, cdRB, cdErr

clientVars == <<cliState, ccKind, seq, pending, closing, shutdown, sendingOwner,
                header, callSeq, callErr, callReply, doneBuf, doneSent,
                pcCall, callRet, removedBy, issued, writeLog, answered, pcRecv,
                rh, rcall, rerr, closeRet>>
connVars == <<c2s, s2c, cliClosed, srvClosed>>
serverVars == <<serviceMap, regLog, srvState, srvLog, srvOpt, wg, peerSeq>>
codecVars == <<cdPc, cdH, cdB, cdWire, cdClosed, cdRH, cdRB, cdErr>>

\* One handleRequest goroutine and its inner invocation goroutine per request
\* of the served connection, indexed by the request's sequence number.
VARIABLES
  scKind,        \* the codec serverCodec was given: "gob", or "iface" for any Codec
  hPc,           \* handleRequest: "none", "run", "waitSent", "tmo", "tmoBody", "done"
  iPc,           \* the goroutine it starts: "none", "start", "calling", "called",
                 \* "send", "sendBody", "sent", "exit"
  hRes,          \* what the invoked method returned: "none", "ok" or "err"
  srvSending,    \* the connection's sending mutex: Unlocked or the writer holding it
  numCalls       \* methodType.numCalls of the served method

handlerVars == <<scKind, hPc, iPc, hRes, srvSending, numCalls>>
\* One dialTimeout call, the goroutine it starts, and the HTTP exchange of the
\* tunnelled variant.
VARIABLES
  dKind,         \* "raw": Dial, "http": DialHTTP, "foreign": some other HTTP client
  dOpts,         \* the opts arguments
  dPc,           \* dialTimeout: "start", "spawned", "ret" ("none": no dial)
  dConn,         \* the transport: "none", "open", "closed"
  ncPc,          \* the goroutine calling f(conn, opt): "none", "run", "connect",
                 \* "res" (sending its result on ch), "exit"
  ncRes,         \* the result of f(conn, opt)
  dRet,          \* what dialTimeout returned
  httpReq,       \* the method of the HTTP request sent to the RPC path, or "none"
  httpSrv,       \* ServeHTTP: "idle", "rejected", "hijacked", "hijackError"
  httpWire,      \* the status line the server wrote, as tokens
  httpCli        \* NewHTTPClient after the status line: "none", "handshake", "refused"

dialVars == <<dKind, dOpts, dPc, dConn, ncPc, ncRes, dRet, httpReq, httpSrv, httpWire, httpCli>>
\* The registry (registry.go): the address mapping, the clock its methods read
\* with time.Now(), and the last HTTP exchange it served.
VARIABLES
  now,           \* time.Now(), in whole time units since the registry was built
  regTimeout,    \* LGRegistry.timeout
  servers,       \* LGRegistry.servers: address -> ServerItem.start
  lastBeat,      \* history: address -> time of its last heartbeat upsert
  regResp        \* the last exchange served: request method, status, header, and
                 \* what aliveServer returned to the handler

regVars == <<now, regTimeout, servers, lastBeat, regResp>>

\* One Heartbeat call (registry.go) and the goroutine it starts.
VARIABLES
  hbPc,          \* "start", "loop" (the goroutine waits on its ticker), "stopped"
  hbErr,         \* the err variable the call and its goroutine share
  hbSent,        \* history: the number of sendHeartbeat calls made
  hbStart,       \* the time the ticker was created
  hbDue,         \* the time of the ticker's next tick
  hbDuration     \* the period, after the default was applied

hbVars == <<hbPc, hbErr, hbSent, hbStart, hbDue, hbDuration>>
\* One discovery (xclient): the static list, or the registry-backed variant
\* that embeds it.
VARIABLES
  discKind,      \* "static": MultiServersDiscovery, "registry": GRegistryDiscovery
  discServers,   \* MultiServersDiscovery.servers
  discIndex,     \* MultiServersDiscovery.index, the round-robin cursor
  discTimeout,   \* GRegistryDiscovery.timeout, the staleness window
  discLastUpdate,\* GRegistryDiscovery.lastUpdate
  discSince,     \* history: the time of the last successful refresh or Update
  discQueried,   \* history: the GET the last operation sent to the registry:
                 \* "no" (none sent), "answered" or "failed"
  discRet,       \* what the last operation returned
  discCursor,    \* history: the cursor when the list was last assigned
  discGot        \* history: the round-robin selections made since then

discVars == <<discKind, discServers, discIndex, discTimeout, discLastUpdate, discSince,
              discQueried, discRet, discCursor, discGot>>
\* One XClient.Broadcast call (xclient) and the goroutines it starts, one per
\* address.
VARIABLES
  bcServes,      \* how the server at each address answers the call: "ok" or "err"
  bcReplyNil,    \* the caller passed reply == nil
  bcPc,          \* each goroutine: "none", "start", "waiting" (in Client.Call's
                 \* select), "answered" (the response has arrived), "returned"
                 \* (xc.call has returned), "done"
  bcErr,         \* what xc.call returned to each goroutine
  bcE,           \* e
  bcCancelled,   \* cancel() has been called on the shared context
  bcReplyDone,   \* replyDone
  bcReply,       \* the contents of the caller's reply container
  bcOrder,       \* history: the addresses in the order their goroutines took mu
  bcRet          \* what Broadcast returned, Running before

bcVars == <<bcServes, bcReplyNil, bcPc, bcErr, bcE, bcCancelled, bcReplyDone, bcReply,
            bcOrder, bcRet>>
\* One XClient (xclient) and the clients XDial has created for it.
VARIABLES
  xcClients,     \* XClient.clients: address -> client number
  xcMade,        \* every client created: its address, closing and shutdown
  xcRet          \* what the last dial returned

xcVars == <<xcClients, xcMade, xcRet>>
clusterVars == <<regVars, hbVars, discVars, bcVars, xcVars>>
\* The containers readRequest allocates for the requests it resolves
\* (server.go, service.go).
VARIABLES
  rqHeap,        \* what reflect.New and the Make functions have allocated so
                 \* far: address -> contents
  rqLog,         \* one record per request readRequest resolved: its method, the
                 \* addresses behind req.argv and req.replyv, and how far it got
  rqPanic        \* readRequest panicked

allocVars == <<rqHeap, rqLog, rqPanic>>
\* Client.send statement by statement (client.go)
VARIABLES
  hdrSet         \* per caller: its send has assigned the fields of client.header

sendVars == <<hdrSet>>
\* Client.Close and the codec (client.go)
VARIABLES
  ccCloseCalls   \* history: the calls of client.cc.Close() that Close has made

closeVars == <<ccCloseCalls>>
\* The Done channels of the calls (client.go): Client.Call makes one channel
\* per call, Client.Go takes the channel its caller supplies. And
\* terminateCalls statement by statement.
VARIABLES
  doneChan,      \* per call: the channel that is its Done
  doneCap,       \* per channel: its capacity
  termPc,        \* terminateCalls: "none", "locked" (it holds client.sending and
                 \* client.mu and ranges over pending), "done"
  termLeft       \* the calls its range loop has still to visit

goVars == <<doneChan, doneCap, termPc, termLeft>>
unitVars == <<allocVars, sendVars, closeVars, goVars>>
auxVars == <<handlerVars, dialVars, clusterVars, unitVars>>
vars == <<clientVars, connVars, serverVars, codecVars, auxVars>>

(***************************************************************************)
(* Client call multiplexer: pure helpers (client.go).                      *)
(***************************************************************************)
NoMsg == [Seq |-> 0, Error |-> "", body |-> "none"]

\* the Go string "Foo.Echo"
EchoMethod == <<"Foo", ".", "Echo">>

\* what each caller passes to Client.Call
CallMethod(c) == EchoMethod
CallArg(c) == "ping"

\* registerCall refuses when the client is closing or shut down
RegisterAllowedClosingOnly(cl, sh) == ~cl

RegisterAllowed(cl, sh) == ~(cl \/ sh)

NextSeqStuck(s) == s

\* registerCall: client.seq++
NextSeq(s) == s + 1

\* registerCall: client.pending[call.Seq] = call
AddCall(p, s, c) == (s :> c) @@ p

\* removeCall: call := client.pending[seq]
LookupCall(p, s) == IF s \in DOMAIN p THEN p[s] ELSE NoCall

RemoveCallKeep(p, s) == p

RemoveCallAll(p, s) == [x \in {} |-> NoCall]

\* removeCall: delete(client.pending, seq)
RemoveCall(p, s) == [x \in DOMAIN p \ {s} |-> p[x]]

\* terminateCalls ranges over client.pending and deletes nothing
TerminatePending(p) == p

PendingCalls(p) == {p[x] : x \in DOMAIN p}

TerminateVisitsFirst(p) ==
  IF DOMAIN p = {} THEN {}
  ELSE {p[CHOOSE x \in DOMAIN p : \A y \in DOMAIN p : x <= y]}

\* terminateCalls: for _, call := range client.pending
TerminateVisits(p) == PendingCalls(p)

\* GobCodec.Write: the body is "return nil"; nothing is encoded or flushed
GobCodecWrite(wire, h, body) == wire

\* the result of GobCodec.Write
GobCodecWriteResult == NoErr

\* client.cc.Write: the gob codec always returns nil, another implementation
\* of the codec.Codec interface may return an error
CodecWriteResults(kind) ==
  IF kind = "gob" THEN {GobCodecWriteResult} ELSE {NoErr, "werr"}

\* len(ch): what the calls that share the channel ch have buffered in it
ChanLen(ch) ==
  LET S[n \in 0 .. NCalls] ==
        IF n = 0 THEN 0
        ELSE S[n - 1] + (IF doneChan[n] = ch THEN doneBuf[n] ELSE 0)
  IN S[NCalls]

\* Call.done: call.Done <- call, a send that needs room in the buffer
CanSignal(c) == ChanLen(doneChan[c]) < doneCap[doneChan[c]]

\* the header and body reads of receive fail once the client's end is closed,
\* or when the peer's end is closed and nothing is left to read
ReadFails == cliClosed \/ (srvClosed /\ s2c = <<>>)

(***************************************************************************)
(* Client.send (with registerCall), called from Client.Go/Client.Call.     *)
(***************************************************************************)
SendingLockFreeAlways(owner) == TRUE

\* client.sending.Lock() returns when nobody holds the mutex
SendingLockFree(owner) == owner = None

\* The callers are alike (each issues one Client.Call with the arguments of
\* CallMethod and CallArg), so they are numbered in the order in which they
\* lock Client.sending.
SendRegister(c) ==
  /\ cliState = "up"
  /\ pcCall[c] = "start"
  /\ \A d \in Calls : d < c => pcCall[d] # "start"
  /\ SendingLockFree(sendingOwner)
  /\ IF RegisterAllowed(closing, shutdown)
     THEN /\ callSeq' = [callSeq EXCEPT ![c] = seq]
          /\ pending' = AddCall(pending, seq, c)
          /\ seq' = NextSeq(seq)
          /\ issued' = Append(issued, seq)
          /\ sendingOwner' = "caller"
          /\ pcCall' = [pcCall EXCEPT ![c] = "write"]
          /\ UNCHANGED <<callErr, doneBuf, doneSent>>
     ELSE /\ CanSignal(c)
          /\ callErr' = [callErr EXCEPT ![c] = ErrShutdown]
          /\ doneBuf' = [doneBuf EXCEPT ![c] = @ + 1]
          /\ doneSent' = [doneSent EXCEPT ![c] = @ + 1]
          /\ pcCall' = [pcCall EXCEPT ![c] = "wait"]
          /\ UNCHANGED <<callSeq, pending, seq, issued, sendingOwner>>
  /\ UNCHANGED <<writeLog, answered>>
  /\ UNCHANGED <<cliState, ccKind, closing, shutdown, header, callReply,
                 callRet, removedBy, pcRecv, rh, rcall, rerr, closeRet>>
  /\ UNCHANGED <<connVars, serverVars, codecVars>>
  /\ UNCHANGED auxVars

SendWrite(c) ==
  /\ pcCall[c] = "write"
  /\ header' = [ServiceMethod |-> CallMethod(c), Seq |-> callSeq[c], Error |-> ""]
  /\ \E r \in CodecWriteResults(ccKind) :
       IF r = NoErr
       THEN /\ pcCall' = [pcCall EXCEPT ![c] = "wait"]
            /\ sendingOwner' = None
            /\ writeLog' = Append(writeLog, callSeq[c])
            /\ c2s' = IF ccKind = "gob"
                      THEN GobCodecWrite(c2s, header', CallArg(c))
                      ELSE c2s
       ELSE /\ pcCall' = [pcCall EXCEPT ![c] = "wfail"]
            /\ UNCHANGED <<sendingOwner, c2s, writeLog>>
  /\ UNCHANGED <<cliState, ccKind, seq, pending, closing, shutdown, callSeq, callErr, callReply, doneBuf, doneSent, callRet,
                 removedBy, issued, answered, pcRecv, rh, rcall, rerr, closeRet>>
  /\ UNCHANGED <<s2c, cliClosed, srvClosed>>
  /\ UNCHANGED <<serverVars, codecVars>>
  /\ UNCHANGED auxVars

SendWriteFail(c) ==
  /\ pcCall[c] = "wfail"
  /\ LET call == LookupCall(pending, callSeq[c]) IN
       /\ pending' = RemoveCall(pending, callSeq[c])
       /\ IF call # NoCall
          THEN /\ CanSignal(call)
               /\ callErr' = [callErr EXCEPT ![call] = "werr"]
               /\ doneBuf' = [doneBuf EXCEPT ![call] = @ + 1]
               /\ doneSent' = [doneSent EXCEPT ![call] = @ + 1]
               /\ removedBy' = [removedBy EXCEPT ![call] = Append(@, "write")]
          ELSE UNCHANGED <<callErr, doneBuf, doneSent, removedBy>>
  /\ sendingOwner' = None
  /\ pcCall' = [pcCall EXCEPT ![c] = "wait"]
  /\ UNCHANGED <<cliState, ccKind, seq, closing, shutdown, header,
                 callSeq, callReply, callRet, issued, writeLog, answered, pcRecv, rh, rcall, rerr, closeRet>>
  /\ UNCHANGED <<connVars, serverVars, codecVars>>
  /\ UNCHANGED auxVars

\* send after registerCall returned a number: the three assignments to the
\* fields of client.header
SendPopulate(c) ==
  /\ pcCall[c] = "write"
  /\ ~hdrSet[c]
  /\ header' = [ServiceMethod |-> CallMethod(c), Seq |-> callSeq[c], Error |-> ""]
  /\ hdrSet' = [hdrSet EXCEPT ![c] = TRUE]
  /\ UNCHANGED <<cliState, ccKind, seq, pending, closing, shutdown, sendingOwner,
                 callSeq, callErr, callReply, doneBuf, doneSent, pcCall, callRet,
                 removedBy, issued, writeLog, answered, pcRecv, rh, rcall, rerr,
                 closeRet>>
  /\ UNCHANGED <<connVars, serverVars, codecVars>>
  /\ UNCHANGED <<handlerVars, dialVars, clusterVars, allocVars, closeVars, goVars>>

\* client.cc.Write(&client.header, call.Args): the codec is handed whatever
\* client.header holds at that moment
SendWriteOut(c) ==
  /\ pcCall[c] = "write"
  /\ hdrSet[c]
  /\ \E r \in CodecWriteResults(ccKind) :
       IF r = NoErr
       THEN /\ pcCall' = [pcCall EXCEPT ![c] = "wait"]
            /\ sendingOwner' = None
            /\ writeLog' = Append(writeLog, header.Seq)
            /\ c2s' = IF ccKind = "gob"
                      THEN GobCodecWrite(c2s, header, CallArg(c))
                      ELSE c2s
       ELSE /\ pcCall' = [pcCall EXCEPT ![c] = "wfail"]
            /\ UNCHANGED <<sendingOwner, c2s, writeLog>>
  /\ UNCHANGED <<cliState, ccKind, seq, pending, closing, shutdown, header, callSeq,
                 callErr, callReply, doneBuf, doneSent, callRet, removedBy, issued,
                 answered, pcRecv, rh, rcall, rerr, closeRet>>
  /\ UNCHANGED <<s2c, cliClosed, srvClosed>>
  /\ UNCHANGED <<serverVars, codecVars>>
  /\ UNCHANGED auxVars

(***************************************************************************)
(* Client.Call: the select on ctx.Done() and call.Done.                    *)
(***************************************************************************)
CallDone(c) ==
  /\ pcCall[c] = "wait"
  /\ doneBuf[c] > 0
  /\ doneBuf' = [doneBuf EXCEPT ![c] = @ - 1]
  /\ callRet' = [callRet EXCEPT ![c] = callErr[c]]
  /\ pcCall' = [pcCall EXCEPT ![c] = "ret"]
  /\ UNCHANGED <<cliState, ccKind, seq, pending, closing, shutdown, sendingOwner,
                 header, callSeq, callErr, callReply, doneSent,
                 removedBy, issued, writeLog, answered, pcRecv, rh, rcall, rerr, closeRet>>
  /\ UNCHANGED <<connVars, serverVars, codecVars>>
  /\ UNCHANGED auxVars

CallCancel(c) ==
  /\ pcCall[c] = "wait"
  /\ LET call == LookupCall(pending, callSeq[c]) IN
       /\ pending' = RemoveCall(pending, callSeq[c])
       /\ removedBy' = IF call # NoCall
                       THEN [removedBy EXCEPT ![call] = Append(@, "cancel")]
                       ELSE removedBy
  /\ callRet' = [callRet EXCEPT ![c] = "ctxErr"]
  /\ pcCall' = [pcCall EXCEPT ![c] = "ret"]
  /\ UNCHANGED <<cliState, ccKind, seq, closing, shutdown, sendingOwner, header, callSeq, callErr, callReply, doneBuf, doneSent, issued, writeLog, answered,
                 pcRecv, rh, rcall, rerr, closeRet>>
  /\ UNCHANGED <<connVars, serverVars, codecVars>>
  /\ UNCHANGED auxVars

(***************************************************************************)
(* Client.receive and Client.terminateCalls.                               *)
(***************************************************************************)
RecvReadHeader ==
  /\ cliState = "up"
  /\ pcRecv = "loop"
  /\ ReadFails \/ s2c # <<>>
  /\ IF ReadFails
     THEN /\ rerr' = "readErr"
          /\ pcRecv' = "term"
          /\ UNCHANGED rh
     ELSE /\ rh' = Head(s2c)
          /\ pcRecv' = "hdr"
          /\ UNCHANGED rerr
  /\ UNCHANGED <<cliState, ccKind, seq, pending, closing, shutdown, sendingOwner,
                 header, callSeq, callErr, callReply, doneBuf, doneSent,
                 pcCall, callRet, removedBy, issued, writeLog, answered, rcall, closeRet>>
  /\ UNCHANGED <<connVars, serverVars, codecVars>>
  /\ UNCHANGED auxVars

RecvRemoveCall ==
  /\ pcRecv = "hdr"
  /\ LET call == LookupCall(pending, rh.Seq) IN
       /\ rcall' = call
       /\ pending' = RemoveCall(pending, rh.Seq)
       /\ removedBy' = IF call # NoCall
                       THEN [removedBy EXCEPT ![call] = Append(@, "response")]
                       ELSE removedBy
  /\ pcRecv' = "body"
  /\ UNCHANGED <<cliState, ccKind, seq, closing, shutdown, sendingOwner, header, callSeq, callErr, callReply, doneBuf, doneSent, pcCall,
                 callRet, issued, writeLog, answered, rh, rerr, closeRet>>
  /\ UNCHANGED <<connVars, serverVars, codecVars>>
  /\ UNCHANGED auxVars

RecvBody ==
  /\ pcRecv = "body"
  /\ LET berr == IF cliClosed \/ rh.body = "corrupt" THEN "bodyErr" ELSE NoErr IN
       /\ CASE rcall = NoCall ->
                 UNCHANGED <<callErr, callReply, doneBuf, doneSent>>
            [] rcall # NoCall /\ rh.Error # "" ->
                 /\ CanSignal(rcall)
                 /\ callErr' = [callErr EXCEPT ![rcall] = rh.Error]
                 /\ doneBuf' = [doneBuf EXCEPT ![rcall] = @ + 1]
                 /\ doneSent' = [doneSent EXCEPT ![rcall] = @ + 1]
                 /\ UNCHANGED callReply
            [] OTHER ->
                 /\ CanSignal(rcall)
                 /\ callReply' = IF berr = NoErr
                                 THEN [callReply EXCEPT ![rcall] = rh.body]
                                 ELSE callReply
                 /\ callErr' = IF berr = NoErr
                               THEN callErr
                               ELSE [callErr EXCEPT ![rcall] = "readingBody"]
                 /\ doneBuf' = [doneBuf EXCEPT ![rcall] = @ + 1]
                 /\ doneSent' = [doneSent EXCEPT ![rcall] = @ + 1]
       /\ rerr' = berr
       /\ pcRecv' = IF berr = NoErr THEN "loop" ELSE "term"
  /\ s2c' = Tail(s2c)
  /\ rh' = NoMsg
  /\ rcall' = NoCall
  /\ UNCHANGED <<cliState, ccKind, seq, pending, closing, shutdown, sendingOwner,
                 header, callSeq, pcCall, callRet, removedBy, issued, writeLog, answered, closeRet>>
  /\ UNCHANGED <<c2s, cliClosed, srvClosed>>
  /\ UNCHANGED <<serverVars, codecVars>>
  /\ UNCHANGED auxVars

\* terminateCalls holds Client.sending and Client.mu from its first line to its
\* return, and every other step that needs one of them is a single step here:
\* the whole function is one step, taken when both locks are free.  Each send
\* on a Done channel needs room in its buffer.
TerminateCalls ==
  /\ pcRecv = "term"
  /\ sendingOwner = None
  /\ \A c \in TerminateVisits(pending) : CanSignal(c)
  /\ shutdown' = TRUE
  /\ callErr' = [c \in Calls |->
                   IF c \in TerminateVisits(pending) THEN rerr ELSE callErr[c]]
  /\ doneBuf' = [c \in Calls |->
                   IF c \in TerminateVisits(pending) THEN doneBuf[c] + 1 ELSE doneBuf[c]]
  /\ doneSent' = [c \in Calls |->
                    IF c \in TerminateVisits(pending) THEN doneSent[c] + 1 ELSE doneSent[c]]
  /\ pending' = TerminatePending(pending)
  /\ pcRecv' = "done"
  /\ UNCHANGED <<cliState, ccKind, seq, closing, sendingOwner, header, callSeq,
                 callReply, pcCall, callRet, removedBy, issued, writeLog, answered,
                 rh, rcall, rerr, closeRet>>
  /\ UNCHANGED <<connVars, serverVars, codecVars>>
  /\ UNCHANGED auxVars

\* terminateCalls statement by statement. Its first lines: both locks are
\* taken and shutdown is set
TermLock ==
  /\ pcRecv = "term"
  /\ termPc = "none"
  /\ SendingLockFree(sendingOwner)
  /\ sendingOwner' = "terminate"
  /\ shutdown' = TRUE
  /\ termLeft' = TerminateVisits(pending)
  /\ termPc' = "locked"
  /\ UNCHANGED <<cliState, ccKind, seq, pending, closing, header, callSeq, callErr,
                 callReply, doneBuf, doneSent, pcCall, callRet, removedBy, issued,
                 writeLog, answered, pcRecv, rh, rcall, rerr, closeRet>>
  /\ UNCHANGED <<connVars, serverVars, codecVars>>
  /\ UNCHANGED <<handlerVars, dialVars, clusterVars, allocVars, sendVars, closeVars,
                 doneChan, doneCap>>

\* one iteration of its range loop, in the order the map yields: the call
\* gets the error and call.done() sends on its Done channel
TermSignal(c) ==
  /\ termPc = "locked"
  /\ c \in termLeft
  /\ CanSignal(c)
  /\ callErr' = [callErr EXCEPT ![c] = rerr]
  /\ doneBuf' = [doneBuf EXCEPT ![c] = @ + 1]
  /\ doneSent' = [doneSent EXCEPT ![c] = @ + 1]
  /\ termLeft' = termLeft \ {c}
  /\ UNCHANGED <<cliState, ccKind, seq, pending, closing, shutdown, sendingOwner,
                 header, callSeq, callReply, pcCall, callRet, removedBy, issued,
                 writeLog, answered, pcRecv, rh, rcall, rerr, closeRet>>
  /\ UNCHANGED <<connVars, serverVars, codecVars>>
  /\ UNCHANGED <<handlerVars, dialVars, clusterVars, allocVars, sendVars, closeVars,
                 doneChan, doneCap, termPc>>

\* the loop is over: the deferred unlocks run and receive returns
TermUnlock ==
  /\ termPc = "locked"
  /\ termLeft = {}
  /\ sendingOwner' = None
  /\ termPc' = "done"
  /\ pcRecv' = "done"
  /\ UNCHANGED <<cliState, ccKind, seq, pending, closing, shutdown, header, callSeq,
                 callErr, callReply, doneBuf, doneSent, pcCall, callRet, removedBy,
                 issued, writeLog, answered, rh, rcall, rerr, closeRet>>
  /\ UNCHANGED <<connVars, serverVars, codecVars>>
  /\ UNCHANGED <<handlerVars, dialVars, clusterVars, allocVars, sendVars, closeVars,
                 doneChan, doneCap, termLeft>>

(***************************************************************************)
(* Client.Close.                                                           *)
(***************************************************************************)
CloseRefusedNever(cl) == FALSE

\* Close returns ErrShutdown at once when closing is already set
CloseRefused(cl) == cl

ClientClose ==
  /\ cliState = "up"
  /\ IF CloseRefused(closing)
     THEN /\ closeRet' = ErrShutdown
          /\ UNCHANGED <<closing, cliClosed, ccCloseCalls>>
     ELSE /\ closing' = TRUE
          /\ cliClosed' = TRUE
          /\ ccCloseCalls' = ccCloseCalls + 1
          /\ closeRet' = NoErr
  /\ UNCHANGED <<cliState, ccKind, seq, pending, shutdown, sendingOwner, header, callSeq, callErr, callReply, doneBuf, doneSent, pcCall,
                 callRet, removedBy, issued, writeLog, answered, pcRecv, rh, rcall, rerr>>
  /\ UNCHANGED <<c2s, s2c, srvClosed>>
  /\ UNCHANGED <<serverVars, codecVars>>
  /\ UNCHANGED <<handlerVars, dialVars, clusterVars, allocVars, sendVars, goVars>>

(***************************************************************************)
(* The peer of a client: any process at the other end of the connection.   *)
(***************************************************************************)
PeerMsgs ==
  {[Seq |-> s, Error |-> "", body |-> "pong"] : s \in 1 .. NCalls}
    \cup {[Seq |-> s, Error |-> "srvErr", body |-> "invalid"] : s \in 1 .. NCalls}

Range(f) == {f[i] : i \in DOMAIN f}

\* The peer answers requests the codec accepted, each at most once and in any
\* order, with a reply or with an error; the answer reaches the client while
\* its reader waits for one.
PeerSend(m) ==
  /\ ~srvClosed
  /\ ~cliClosed
  /\ cliState = "up"
  /\ pcRecv = "loop"
  /\ s2c = <<>>
  /\ m.Seq \in Range(writeLog) \ answered
  /\ answered' = answered \cup {m.Seq}
  /\ s2c' = Append(s2c, m)
  /\ UNCHANGED <<c2s, cliClosed, srvClosed>>
  /\ UNCHANGED <<cliState, ccKind, seq, pending, closing, shutdown, sendingOwner,
                 header, callSeq, callErr, callReply, doneBuf, doneSent, pcCall,
                 callRet, removedBy, issued, writeLog, pcRecv, rh, rcall, rerr,
                 closeRet>>
  /\ UNCHANGED <<serverVars, codecVars>>
  /\ UNCHANGED auxVars

ConnFail ==
  /\ ~srvClosed
  /\ srvClosed' = TRUE
  /\ UNCHANGED <<c2s, s2c, cliClosed>>
  /\ UNCHANGED <<clientVars, serverVars, codecVars>>
  /\ UNCHANGED auxVars

(***************************************************************************)
(* Method registry (service.go).  A receiver type is its name and the      *)
(* signatures of its exported methods.                                     *)
(***************************************************************************)
Rcvrs == {"Foo", "Bar"}

\* A Go type as reflect shows it: Name() as character codes (empty for an
\* unnamed type such as a pointer), PkgPath(), Kind(), and the element type
\* in a sequence that is empty when Elem() would panic
GoType(name, pkgPath, kind, elem) ==
  [name |-> name, pkgPath |-> pkgPath, kind |-> kind, elem |-> elem]

PtrTo(t) == GoType(<<>>, "", "ptr", <<t>>)

TString == GoType(<<115, 116, 114>>, "", "string", <<>>)
TArgs == GoType(<<65, 114, 103, 115>>, "main", "struct", <<>>)
TargsUnexported == GoType(<<97, 114, 103, 115>>, "main", "struct", <<>>)
TMap == GoType(<<>>, "", "map", <<TString>>)
TSlice == GoType(<<>>, "", "slice", <<TString>>)
TPtrString == PtrTo(TString)
TPtrUnexported == PtrTo(TargsUnexported)

\* ast.IsExported: the name begins with an upper-case letter
IsExported(name) == name # <<>> /\ name[1] \in 65 .. 90

isExportedOrBuiltinType(t) == IsExported(t.name) \/ t.pkgPath = ""

\* numIn counts the receiver, as reflect's Method.Type does
Sig(n, numIn, numOut, outIsError, argOK, replyOK) ==
  [name |-> n, numIn |-> numIn, numOut |-> numOut, outIsError |-> outIsError,
   argOK |-> argOK, replyOK |-> replyOK]

RcvrMethods(r) ==
  IF r = "Foo"
  THEN {Sig("Echo", 3, 1, TRUE, isExportedOrBuiltinType(TString),
            isExportedOrBuiltinType(TPtrString)),
        Sig("Hello", 2, 1, TRUE, isExportedOrBuiltinType(TString), TRUE)}
  ELSE {Sig("Sum", 3, 1, TRUE, isExportedOrBuiltinType(TArgs),
            isExportedOrBuiltinType(TPtrString)),
        Sig("Raw", 3, 1, FALSE, isExportedOrBuiltinType(TArgs),
            isExportedOrBuiltinType(TPtrString)),
        Sig("Two", 3, 2, TRUE, isExportedOrBuiltinType(TArgs),
            isExportedOrBuiltinType(TPtrString)),
        Sig("Four", 4, 1, TRUE, isExportedOrBuiltinType(TArgs),
            isExportedOrBuiltinType(TPtrString)),
        Sig("Priv", 3, 1, TRUE, isExportedOrBuiltinType(TargsUnexported),
            isExportedOrBuiltinType(TPtrString)),
        Sig("Ptr", 3, 1, TRUE, isExportedOrBuiltinType(TArgs),
            isExportedOrBuiltinType(TPtrUnexported))}

\* registerMethods: the checks a method passes to get a descriptor
Qualifies(m) ==
  /\ m.numIn = 3 /\ m.numOut = 1
  /\ m.outIsError
  /\ m.argOK /\ m.replyOK

\* newService: the service's name and its method map
newService(r) ==
  [kind |-> "service", name |-> <<r>>,
   method |-> {m.name : m \in {x \in RcvrMethods(r) : Qualifies(x)}}]

(***************************************************************************)
(* Server.Register and Server.findService (server.go).                     *)
(***************************************************************************)
\* Register: s.serviceMap.LoadOrStore(ser.name, s) stores the server s itself,
\* not the service ser
RegisterStores(ser) == [kind |-> "Server"]

Register(r) ==
  /\ Len(regLog) < MaxReg
  /\ LET ser == newService(r) IN
       IF ser.name \in DOMAIN serviceMap
       THEN /\ regLog' = Append(regLog, [name |-> ser.name, err |-> "already defined"])
            /\ UNCHANGED serviceMap
       ELSE /\ regLog' = Append(regLog, [name |-> ser.name, err |-> NoErr])
            /\ serviceMap' = (ser.name :> RegisterStores(ser)) @@ serviceMap
  /\ UNCHANGED <<srvState, srvLog, srvOpt, wg, peerSeq>>
  /\ UNCHANGED <<clientVars, connVars, codecVars>>
  /\ UNCHANGED auxVars

\* strings.LastIndex(serviceMethod, "."), -1 when there is no dot
LastIndexDot(sm) ==
  IF \E i \in DOMAIN sm : sm[i] = "."
  THEN (CHOOSE i \in DOMAIN sm :
          sm[i] = "." /\ \A j \in DOMAIN sm : sm[j] = "." => j <= i) - 1
  ELSE -1

\* findService: what it returns, or that it panics in svci.(*service)
findService(smap, sm) ==
  LET dot == LastIndexDot(sm)
      serviceName == SubSeq(sm, 1, dot)
      methodName == SubSeq(sm, dot + 2, Len(sm))
  IN IF dot < 0
     THEN [out |-> "err", err |-> "ill-formed", svc |-> <<>>, mtype |-> <<>>]
     ELSE IF serviceName \notin DOMAIN smap
     THEN [out |-> "err", err |-> "no service", svc |-> <<>>, mtype |-> <<>>]
     ELSE IF smap[serviceName].kind # "service"
     THEN [out |-> "panic", err |-> "interface conversion", svc |-> <<>>, mtype |-> <<>>]
     ELSE IF \A n \in smap[serviceName].method : <<n>> # methodName
     THEN [out |-> "err", err |-> "no method", svc |-> serviceName, mtype |-> <<>>]
     ELSE [out |-> "ok", err |-> NoErr, svc |-> serviceName, mtype |-> methodName]

(***************************************************************************)
(* Server.ServeConn and Server.serverCodec (server.go).                    *)
(***************************************************************************)
GOBType == "application/gob"
JSONType == "application/json"

\* init() of package codec registers the gob constructor only
CodecRegistered(t) == t \in {GOBType}

NoOpt == [k |-> "none"]

MagicOKAlways(opt) == TRUE

\* ServeConn: opt.MagicNumber != MagicNumber
MagicOK(opt) == opt.magic = MagicNumber

\* ServeConn: json.NewDecoder(conn).Decode(&opt) succeeds on a JSON option
DecodesAsOption(f) == f.k = "opt" /\ f.json

\* ServeConn up to the call of serverCodec
SrvHandshake ==
  /\ srvState = "AwaitingHandshake"
  /\ c2s # <<>> \/ cliClosed
  /\ IF c2s = <<>>
     THEN /\ srvOpt' = [k |-> "eof"]
          /\ srvState' = "Closed"
          /\ UNCHANGED c2s
     ELSE /\ srvOpt' = Head(c2s)
          /\ c2s' = Tail(c2s)
          /\ srvState' =
               IF ~DecodesAsOption(Head(c2s)) THEN "Closed"
               ELSE IF ~MagicOK(Head(c2s)) THEN "Closed"
               ELSE IF ~CodecRegistered(Head(c2s).codec) THEN "Closed"
               ELSE "Serving"
  /\ srvClosed' = (srvClosed \/ srvState' = "Closed")
  /\ UNCHANGED <<s2c, cliClosed>>
  /\ UNCHANGED <<serviceMap, regLog, srvLog, wg, peerSeq>>
  /\ UNCHANGED <<clientVars, codecVars>>
  /\ UNCHANGED auxVars

\* GobCodec.ReadBody into the argument container: the next gob value must be a
\* body the argument type can take
BodyDecodes(f) == f.k = "body" /\ f.v # "corrupt"

\* what a codec puts on the wire for a header and for a body
WriteHeaderPart(kind, wire, h) ==
  IF kind = "gob" THEN GobCodecWrite(wire, h, "none")
  ELSE Append(wire, [k |-> "hdr", h |-> h])

WriteBodyPart(kind, wire, body) ==
  IF kind = "gob" THEN wire
  ELSE Append(wire, [k |-> "body", v |-> body])

\* cc.Write(h, body) as sendResponse calls it
SrvCodecWrite(kind, wire, h, body) ==
  WriteBodyPart(kind, WriteHeaderPart(kind, wire, h), body)

\* the value of a sync.Mutex nobody holds
Unlocked == <<"none", 0>>

SendingFreeAlways(owner) == TRUE

\* sendResponse: sending.Lock() succeeds when the mutex is free
SendingFree(owner) == owner = Unlocked

DispatchWaits(hp) == \A k \in DOMAIN hp : hp[k] \in {"none", "done"}

\* serverCodec: "go s.handleRequest(...)" returns at once, whatever the
\* handlers already started are doing
DispatchReturns(hp) == TRUE

CalledReceivableAlways(p) == TRUE

\* called is an unbuffered channel: the send on it completes only while
\* handleRequest is receiving from it
CalledReceivable(p) == p = "run"

\* One iteration of the loop of serverCodec: readRequest, then the error
\* response or the start of handleRequest.  The reads block until the frame
\* they need has arrived or the peer has closed.
SrvReadRequest ==
  /\ srvState = "Serving"
  /\ c2s # <<>> \/ cliClosed
  /\ DispatchReturns(hPc)
  /\ IF c2s = <<>> \/ Head(c2s).k # "hdr"
     THEN \* ReadHeader fails (EOF, or a gob value that is no Header): break
          /\ srvState' = "Draining"
          /\ c2s' = IF c2s = <<>> THEN c2s ELSE Tail(c2s)
          /\ UNCHANGED <<srvLog, wg, s2c, srvClosed, hPc, iPc>>
     ELSE LET h == Head(c2s).h
              fs == findService(serviceMap, h.ServiceMethod)
          IN IF fs.out = "panic"
             THEN /\ srvState' = "Panicked"
                  /\ srvClosed' = TRUE
                  /\ c2s' = Tail(c2s)
                  /\ srvLog' = Append(srvLog, [Seq |-> h.Seq, res |-> "panic"])
                  /\ UNCHANGED <<wg, s2c, hPc, iPc>>
             ELSE IF fs.out = "err"
             THEN \* readRequest returns before ReadBody; sendResponse
                  /\ SendingFree(srvSending)
                  /\ c2s' = Tail(c2s)
                  /\ s2c' = SrvCodecWrite(scKind, s2c, [h EXCEPT !.Error = fs.err], "invalid")
                  /\ srvLog' = Append(srvLog, [Seq |-> h.Seq, res |-> "lookupErr"])
                  /\ UNCHANGED <<srvState, wg, srvClosed, hPc, iPc>>
             ELSE /\ Len(c2s) >= 2 \/ cliClosed
                  /\ IF Len(c2s) >= 2 /\ BodyDecodes(c2s[2])
                     THEN \* wg.Add(1); go s.handleRequest(...)
                          /\ wg' = wg + 1
                          /\ hPc' = [hPc EXCEPT ![h.Seq] = "run"]
                          /\ iPc' = [iPc EXCEPT ![h.Seq] = "start"]
                          /\ srvLog' = Append(srvLog, [Seq |-> h.Seq, res |-> "dispatched"])
                          /\ UNCHANGED s2c
                     ELSE /\ SendingFree(srvSending)
                          /\ s2c' = SrvCodecWrite(scKind, s2c, [h EXCEPT !.Error = "bodyErr"], "invalid")
                          /\ srvLog' = Append(srvLog, [Seq |-> h.Seq, res |-> "bodyErr"])
                          /\ UNCHANGED <<wg, hPc, iPc>>
                  /\ c2s' = IF Len(c2s) >= 2 THEN Tail(Tail(c2s)) ELSE Tail(c2s)
                  /\ UNCHANGED <<srvState, srvClosed>>
  /\ UNCHANGED cliClosed
  /\ UNCHANGED <<serviceMap, regLog, srvOpt, peerSeq>>
  /\ UNCHANGED <<scKind, hRes, srvSending, numCalls>>
  /\ UNCHANGED <<clientVars, codecVars>>
  /\ UNCHANGED <<dialVars, clusterVars, unitVars>>

(***************************************************************************)
(* Server.handleRequest and the goroutine it starts (server.go).           *)
(***************************************************************************)
Writers == {<<"inner", k>> : k \in Reqs} \cup {<<"handler", k>> : k \in Reqs}

\* the response header a writer passes to sendResponse
ResponseHeader(w) ==
  [ServiceMethod |-> EchoMethod, Seq |-> w[2],
   Error |-> IF w[1] = "handler" THEN "call timeout"
             ELSE IF hRes[w[2]] = "err" THEN "handler error" ELSE ""]

\* and the body: req.replyv of Echo, or invalidRequest
ResponseBody(w) ==
  IF w[1] = "inner" /\ hRes[w[2]] = "ok" THEN "ping" ELSE "invalid"

\* the goroutine enters service.call: numCalls is incremented
InvokeStart(k) ==
  /\ iPc[k] = "start"
  /\ iPc' = [iPc EXCEPT ![k] = "calling"]
  /\ numCalls' = numCalls + 1
  /\ UNCHANGED <<scKind, hPc, hRes, srvSending>>
  /\ UNCHANGED <<clientVars, connVars, serverVars, codecVars>>
  /\ UNCHANGED <<dialVars, clusterVars, unitVars>>

\* the method returns, with or without an error; the goroutine then offers
\* the value on the channel called
InvokeReturn(k) ==
  /\ iPc[k] = "calling"
  /\ \E r \in {"ok", "err"} : hRes' = [hRes EXCEPT ![k] = r]
  /\ iPc' = [iPc EXCEPT ![k] = "called"]
  /\ UNCHANGED <<scKind, hPc, srvSending, numCalls>>
  /\ UNCHANGED <<clientVars, connVars, serverVars, codecVars>>
  /\ UNCHANGED <<dialVars, clusterVars, unitVars>>

\* handleRequest receives from called, in "<-called" or in the select
HandlerCalled(k) ==
  /\ CalledReceivable(hPc[k])
  /\ iPc[k] = "called"
  /\ hPc' = [hPc EXCEPT ![k] = "waitSent"]
  /\ iPc' = [iPc EXCEPT ![k] = "send"]
  /\ UNCHANGED <<scKind, hRes, srvSending, numCalls>>
  /\ UNCHANGED <<clientVars, connVars, serverVars, codecVars>>
  /\ UNCHANGED <<dialVars, clusterVars, unitVars>>

\* the select takes the timer's case; there is no timer when timeout is 0
HandlerTimeout(k) ==
  /\ hPc[k] = "run"
  /\ srvOpt.ht # 0
  /\ hPc' = [hPc EXCEPT ![k] = "tmo"]
  /\ UNCHANGED <<scKind, iPc, hRes, srvSending, numCalls>>
  /\ UNCHANGED <<clientVars, connVars, serverVars, codecVars>>
  /\ UNCHANGED <<dialVars, clusterVars, unitVars>>

\* sendResponse: sending.Lock(), then the codec writes the header
SrvSendHdr(w) ==
  /\ IF w[1] = "inner" THEN iPc[w[2]] = "send" ELSE hPc[w[2]] = "tmo"
  /\ SendingFree(srvSending)
  /\ srvSending' = w
  /\ s2c' = WriteHeaderPart(scKind, s2c, ResponseHeader(w))
  /\ IF w[1] = "inner"
     THEN iPc' = [iPc EXCEPT ![w[2]] = "sendBody"] /\ UNCHANGED hPc
     ELSE hPc' = [hPc EXCEPT ![w[2]] = "tmoBody"] /\ UNCHANGED iPc
  /\ UNCHANGED <<scKind, hRes, numCalls>>
  /\ UNCHANGED <<c2s, cliClosed, srvClosed>>
  /\ UNCHANGED <<clientVars, serverVars, codecVars>>
  /\ UNCHANGED <<dialVars, clusterVars, unitVars>>

\* the codec writes the body, sendResponse unlocks; after the timeout
\* response handleRequest returns and its deferred wg.Done() runs
SrvSendBody(w) ==
  /\ IF w[1] = "inner" THEN iPc[w[2]] = "sendBody" ELSE hPc[w[2]] = "tmoBody"
  /\ s2c' = WriteBodyPart(scKind, s2c, ResponseBody(w))
  /\ srvSending' = Unlocked
  /\ IF w[1] = "inner"
     THEN iPc' = [iPc EXCEPT ![w[2]] = "sent"] /\ UNCHANGED <<hPc, wg>>
     ELSE /\ hPc' = [hPc EXCEPT ![w[2]] = "done"]
          /\ wg' = wg - 1
          /\ UNCHANGED iPc
  /\ UNCHANGED <<scKind, hRes, numCalls>>
  /\ UNCHANGED <<c2s, cliClosed, srvClosed>>
  /\ UNCHANGED <<serviceMap, regLog, srvState, srvLog, srvOpt, peerSeq>>
  /\ UNCHANGED <<clientVars, codecVars>>
  /\ UNCHANGED <<dialVars, clusterVars, unitVars>>

\* handleRequest receives from sent and returns: wg.Done()
HandlerSent(k) ==
  /\ hPc[k] = "waitSent"
  /\ iPc[k] = "sent"
  /\ hPc' = [hPc EXCEPT ![k] = "done"]
  /\ iPc' = [iPc EXCEPT ![k] = "exit"]
  /\ wg' = wg - 1
  /\ UNCHANGED <<scKind, hRes, srvSending, numCalls>>
  /\ UNCHANGED <<serviceMap, regLog, srvState, srvLog, srvOpt, peerSeq>>
  /\ UNCHANGED <<clientVars, connVars, codecVars>>
  /\ UNCHANGED <<dialVars, clusterVars, unitVars>>

\* serverCodec after the loop: wg.Wait(), cc.Close(); ServeConn's deferred Close
SrvDrain ==
  /\ srvState = "Draining"
  /\ wg = 0
  /\ srvState' = "Closed"
  /\ srvClosed' = TRUE
  /\ UNCHANGED <<c2s, s2c, cliClosed>>
  /\ UNCHANGED <<serviceMap, regLog, srvLog, srvOpt, wg, peerSeq>>
  /\ UNCHANGED <<clientVars, codecVars>>
  /\ UNCHANGED auxVars

(***************************************************************************)
(* The peer of a server: any process at the other end of the connection.   *)
(***************************************************************************)
OptFrames ==
  {[k |-> "opt", json |-> j, magic |-> m, codec |-> t] :
     j \in BOOLEAN, m \in {MagicNumber, 0}, t \in {GOBType, JSONType}}

\* the method strings a peer asks for: "Foo.Echo", "Foo.Nope", "Nope.Echo",
\* "FooEcho" and "Foo.Bar.Echo"
ServiceMethods ==
  {<<"Foo", ".", "Echo">>, <<"Foo", ".", "Nope">>, <<"Nope", ".", "Echo">>,
   <<"FooEcho">>, <<"Foo", ".", "Bar", ".", "Echo">>}

\* the peer writes a request: a header frame, then its body frame
PeerRequest(sm) ==
  /\ ~cliClosed
  /\ ~srvClosed
  /\ peerSeq < MaxReq
  /\ peerSeq' = peerSeq + 1
  /\ c2s' = c2s \o <<[k |-> "hdr",
                      h |-> [ServiceMethod |-> sm, Seq |-> peerSeq + 1, Error |-> ""]],
                     [k |-> "body", v |-> "ping"]>>
  /\ UNCHANGED <<s2c, cliClosed, srvClosed>>
  /\ UNCHANGED <<serviceMap, regLog, srvState, srvLog, srvOpt, wg>>
  /\ UNCHANGED <<clientVars, codecVars>>
  /\ UNCHANGED auxVars

\* the peer writes a request whose body the argument type cannot take
PeerBadBody(sm) ==
  /\ ~cliClosed
  /\ ~srvClosed
  /\ peerSeq < MaxReq
  /\ peerSeq' = peerSeq + 1
  /\ c2s' = c2s \o <<[k |-> "hdr",
                      h |-> [ServiceMethod |-> sm, Seq |-> peerSeq + 1, Error |-> ""]],
                     [k |-> "body", v |-> "corrupt"]>>
  /\ UNCHANGED <<s2c, cliClosed, srvClosed>>
  /\ UNCHANGED <<serviceMap, regLog, srvState, srvLog, srvOpt, wg>>
  /\ UNCHANGED <<clientVars, codecVars>>
  /\ UNCHANGED auxVars

PeerClose ==
  /\ ~cliClosed
  /\ cliClosed' = TRUE
  /\ UNCHANGED <<c2s, s2c, srvClosed>>
  /\ UNCHANGED <<clientVars, serverVars, codecVars>>
  /\ UNCHANGED auxVars

(***************************************************************************)
(* dialTimeout, NewClient and NewHTTPClient (client.go) and ServeHTTP      *)
(* (server.go).                                                            *)
(***************************************************************************)
DefaultOption == [k |-> "opt", json |-> TRUE, magic |-> MagicNumber, codec |-> GOBType]

NilOption == [k |-> "nil"]

\* parseOptins: no option means DefaultOption; a given option gets the default
\* magic number and, when its codec type is empty, the default codec type
parseOptins(o) ==
  IF o = NilOption
  THEN DefaultOption
  ELSE [k |-> "opt", json |-> TRUE, magic |-> DefaultOption.magic,
        codec |-> IF o.codec = "" THEN DefaultOption.codec ELSE o.codec]

\* the opts arguments of a Dial: none, a nil option, one option, two options
DialArgs ==
  {<<>>, <<NilOption>>,
   <<[codec |-> GOBType, ct |-> 0]>>,
   <<[codec |-> "", ct |-> DefaultConnectTimeout]>>,
   <<[codec |-> JSONType, ct |-> DefaultConnectTimeout]>>,
   <<[codec |-> GOBType, ct |-> 0], [codec |-> GOBType, ct |-> 0]>>}

\* parseOptins: more than one option is an error, unless the first is nil
parseOptinsErr(opts) ==
  IF Len(opts) = 0 \/ opts[1] = NilOption THEN NoErr
  ELSE IF Len(opts) # 1 THEN "only one option is allowed"
  ELSE NoErr

\* the option parseOptins returns, and its ConnectTimeout
DialOption(opts) ==
  IF Len(opts) = 0 THEN parseOptins(NilOption) ELSE parseOptins(opts[1])

ConnectTimeoutOf(opts) ==
  IF Len(opts) = 0 \/ opts[1] = NilOption THEN DefaultConnectTimeout
  ELSE opts[1].ct

NoResult == [client |-> FALSE, err |-> NoErr]

CloseOnErrorNever(err) == FALSE

\* dialTimeout's deferred function: if err != nil { conn.Close() }
CloseOnError(err) == err # NoErr

\* dialTimeout up to the start of the goroutine that calls f(conn, opt)
DialStart ==
  /\ dPc = "start"
  /\ IF parseOptinsErr(dOpts) # NoErr
     THEN /\ dRet' = [client |-> FALSE, err |-> parseOptinsErr(dOpts)]
          /\ dPc' = "ret"
          /\ UNCHANGED <<dConn, ncPc>>
     ELSE \E ok \in BOOLEAN :
            IF ok
            THEN /\ dConn' = "open"
                 /\ ncPc' = "run"
                 /\ dPc' = "spawned"
                 /\ UNCHANGED dRet
            ELSE /\ dRet' = [client |-> FALSE, err |-> "dial error"]
                 /\ dPc' = "ret"
                 /\ UNCHANGED <<dConn, ncPc>>
  /\ UNCHANGED <<dKind, dOpts, ncRes, httpReq, httpSrv, httpWire, httpCli>>
  /\ UNCHANGED <<clientVars, connVars, serverVars, codecVars, handlerVars, clusterVars, unitVars>>

\* NewClient(conn, opt): its result, and whether it closes conn and writes
\* the option.  Encode fails on a closed conn and may fail on an open one.
NewClientResults(conn, opt) ==
  IF ~CodecRegistered(opt.codec)
  THEN {[client |-> FALSE, err |-> "invalid codec type", close |-> FALSE, wrote |-> FALSE]}
  ELSE {[client |-> FALSE, err |-> "option error", close |-> TRUE, wrote |-> FALSE]}
       \cup (IF conn = "open"
             THEN {[client |-> TRUE, err |-> NoErr, close |-> FALSE, wrote |-> TRUE]}
             ELSE {})

\* the goroutine of dialTimeout runs NewClient (Dial)
NcNewClient ==
  /\ ncPc = "run"
  /\ dKind = "raw"
  /\ \E r \in NewClientResults(dConn, DialOption(dOpts)) :
       /\ ncRes' = [client |-> r.client, err |-> r.err]
       /\ dConn' = IF r.close THEN "closed" ELSE dConn
       /\ c2s' = IF r.wrote THEN Append(c2s, DialOption(dOpts)) ELSE c2s
  /\ ncPc' = "res"
  /\ UNCHANGED <<dKind, dOpts, dPc, dRet, httpReq, httpSrv, httpWire, httpCli>>
  /\ UNCHANGED <<s2c, cliClosed, srvClosed>>
  /\ UNCHANGED <<clientVars, serverVars, codecVars, handlerVars, clusterVars, unitVars>>

\* the goroutine runs NewHTTPClient (DialHTTP): it writes the CONNECT request
NcConnect ==
  /\ ncPc = "run"
  /\ dKind = "http"
  /\ httpReq' = IF dConn = "open" THEN "CONNECT" ELSE httpReq
  /\ ncPc' = "connect"
  /\ UNCHANGED <<dKind, dOpts, dPc, dConn, ncRes, dRet, httpSrv, httpWire, httpCli>>
  /\ UNCHANGED <<clientVars, connVars, serverVars, codecVars, handlerVars, clusterVars, unitVars>>

\* the value of the constant connected, "200 Connected to Go RPC", as tokens
connected == <<"200", " ", "Connected", " ", "to", " ", "Go", " ", "RPC">>

\* the status line ServeHTTP writes after Hijack: "HTTP/1.0" + connected
ConnectedStatusLine == <<"HTTP/1.0">> \o connected

\* the status line net/http writes for WriteHeader(405)
NotAllowedStatusLine ==
  <<"HTTP/1.0", " ", "405", " ", "Method", " ", "Not", " ", "Allowed">>

\* index of the first " " of a line, 0 when there is none
FirstSpace(line) ==
  IF \E i \in DOMAIN line : line[i] = " "
  THEN CHOOSE i \in DOMAIN line :
         line[i] = " " /\ \A j \in DOMAIN line : line[j] = " " => i <= j
  ELSE 0

\* http.ReadResponse on a status line: the line is cut at its first space into
\* protocol and status, the status must start with a three-digit code and the
\* protocol must be an HTTP version
ReadResponse(line) ==
  LET sp == FirstSpace(line)
      proto == SubSeq(line, 1, sp - 1)
      status == SubSeq(line, sp + 1, Len(line))
      csp == FirstSpace(status)
      code == IF csp = 0 THEN status ELSE SubSeq(status, 1, csp - 1)
  IN IF line = <<>> THEN [err |-> "EOF", Status |-> <<>>]
     ELSE IF sp = 0 THEN [err |-> "malformed HTTP response", Status |-> <<>>]
     ELSE IF code \notin {<<"200">>, <<"405">>}
     THEN [err |-> "malformed HTTP status code", Status |-> status]
     ELSE IF proto \notin {<<"HTTP/1.0">>, <<"HTTP/1.1">>}
     THEN [err |-> "malformed HTTP version", Status |-> status]
     ELSE [err |-> NoErr, Status |-> status]

\* Server.ServeHTTP on the request that has arrived
ServeHTTP ==
  /\ httpSrv = "idle"
  /\ httpReq # "none"
  /\ IF httpReq # "CONNECT"
     THEN /\ httpSrv' = "rejected"
          /\ httpWire' = NotAllowedStatusLine
     ELSE \E hijacked \in BOOLEAN :
            IF hijacked
            THEN /\ httpSrv' = "hijacked"
                 /\ httpWire' = ConnectedStatusLine
            ELSE /\ httpSrv' = "hijackError"
                 /\ UNCHANGED httpWire
  /\ UNCHANGED <<dKind, dOpts, dPc, dConn, ncPc, ncRes, dRet, httpReq, httpCli>>
  /\ UNCHANGED <<clientVars, connVars, serverVars, codecVars, handlerVars, clusterVars, unitVars>>

\* NewHTTPClient reads the response and, on the connected status, goes on
\* with NewClient on the same conn
NcReadStatus ==
  /\ ncPc = "connect"
  /\ httpWire # <<>> \/ dConn = "closed" \/ httpSrv = "hijackError"
  /\ LET resq == IF dConn = "closed"
                 THEN [err |-> "closed", Status |-> <<>>]
                 ELSE ReadResponse(httpWire)
     IN IF resq.err = NoErr /\ resq.Status = connected
        THEN /\ httpCli' = "handshake"
             /\ \E r \in NewClientResults(dConn, DialOption(dOpts)) :
                  /\ ncRes' = [client |-> r.client, err |-> r.err]
                  /\ dConn' = IF r.close THEN "closed" ELSE dConn
                  /\ c2s' = IF r.wrote THEN Append(c2s, DialOption(dOpts)) ELSE c2s
        ELSE /\ httpCli' = "refused"
             /\ ncRes' = [client |-> FALSE,
                          err |-> IF resq.err = NoErr
                                  THEN "unexpected HTTP response" ELSE resq.err]
             /\ UNCHANGED <<dConn, c2s>>
  /\ ncPc' = "res"
  /\ UNCHANGED <<dKind, dOpts, dPc, dRet, httpReq, httpSrv, httpWire>>
  /\ UNCHANGED <<s2c, cliClosed, srvClosed>>
  /\ UNCHANGED <<clientVars, serverVars, codecVars, handlerVars, clusterVars, unitVars>>

\* dialTimeout receives the result from ch and returns it
DialResult ==
  /\ dPc = "spawned"
  /\ ncPc = "res"
  /\ dRet' = ncRes
  /\ dConn' = IF CloseOnError(ncRes.err) THEN "closed" ELSE dConn
  /\ ncPc' = "exit"
  /\ dPc' = "ret"
  /\ UNCHANGED <<dKind, dOpts, ncRes, httpReq, httpSrv, httpWire, httpCli>>
  /\ UNCHANGED <<clientVars, connVars, serverVars, codecVars, handlerVars, clusterVars, unitVars>>

\* the select of dialTimeout takes the case of time.After(opt.ConnectTimeout)
DialTimeout ==
  /\ dPc = "spawned"
  /\ ConnectTimeoutOf(dOpts) # 0
  /\ dRet' = [client |-> FALSE, err |-> "connect timeout"]
  /\ dConn' = IF CloseOnError("connect timeout") THEN "closed" ELSE dConn
  /\ dPc' = "ret"
  /\ UNCHANGED <<dKind, dOpts, ncPc, ncRes, httpReq, httpSrv, httpWire, httpCli>>
  /\ UNCHANGED <<clientVars, connVars, serverVars, codecVars, handlerVars, clusterVars, unitVars>>

\* an HTTP client that is not an RPC client sends a request to the RPC path
ForeignRequest(m) ==
  /\ dKind = "foreign"
  /\ httpReq = "none"
  /\ httpReq' = m
  /\ UNCHANGED <<dKind, dOpts, dPc, dConn, ncPc, ncRes, dRet, httpSrv, httpWire, httpCli>>
  /\ UNCHANGED <<clientVars, connVars, serverVars, codecVars, handlerVars, clusterVars, unitVars>>

(***************************************************************************)
(* Registry (registry/registry.go): the address mapping, its liveness      *)
(* query and heartbeat upsert, its HTTP handler and the heartbeat sender.  *)
(* Addresses and header values are strings, modelled as sequences of       *)
(* character codes so that sort.Strings, strings.Join, strings.Split and   *)
(* strings.TrimSpace act on them as they do in the program.                *)
(***************************************************************************)
MaxTime == 3                 \* the clock runs over 0 .. MaxTime
Times == 0 .. MaxTime
Comma == 44                  \* ','
AddrA == <<97>>              \* "a"
AddrAB == <<97, 98>>         \* "ab"
AddrB == <<98>>              \* "b"
Addrs == {AddrA, AddrAB, AddrB}
EmptyString == <<>>
defaultTimeout == 5          \* time.Minute * 5, the unit of the clock being a minute
HeartbeatMargin == 1         \* time.Duration(1) * time.Minute
RegTimeouts == {0, 2}        \* the timeouts a registry is built with
StatusOK == 200
StatusInternalServerError == 500
StatusMethodNotAllowed == 405
ServersHeader == "X-LGRPC-Servers"
ServerHeader == "X-LGRPC-Server"
NoHeader == <<>>             \* a header map with no entry

\* s < t, comparing byte by byte as Go compares strings
RECURSIVE LexLess(_, _)
LexLess(s, t) ==
  IF t = <<>> THEN FALSE
  ELSE IF s = <<>> THEN TRUE
  ELSE IF Head(s) # Head(t) THEN Head(s) < Head(t)
  ELSE LexLess(Tail(s), Tail(t))

\* sort.Strings over the collected addresses
RECURSIVE SortStrings(_)
SortStrings(S) ==
  IF S = {} THEN <<>>
  ELSE LET m == CHOOSE x \in S : \A y \in S \ {x} : LexLess(x, y)
       IN  <<m>> \o SortStrings(S \ {m})

\* strings.Join
RECURSIVE Join(_, _)
Join(ss, sep) ==
  IF ss = <<>> THEN EmptyString
  ELSE IF Len(ss) = 1 THEN ss[1]
  ELSE ss[1] \o <<sep>> \o Join(Tail(ss), sep)

\* http.Header.Get: the value of the header, "" when it is absent
HeaderGet(h, name) == IF name \in DOMAIN h THEN h[name] ELSE EmptyString

\* variants of the liveness test
IsAliveInclusive(start, t, timeout) == timeout = 0 \/ start + timeout >= t
IsAliveNoZeroCase(start, t, timeout) == start + timeout > t
\* the test of aliveServer's loop: timeout == 0 || start.Add(timeout).After(now)
IsAlive(start, t, timeout) == timeout = 0 \/ start + timeout > t

\* variant of the loop that deletes nothing
RetainedAll(srv, t, timeout) == DOMAIN srv
\* the entries aliveServer's loop leaves in the map
Retained(srv, t, timeout) == {a \in DOMAIN srv : IsAlive(srv[a], t, timeout)}

\* aliveServer: the sorted alive addresses, and the map with the others deleted
aliveServer(srv, t, timeout) ==
  [alive |-> SortStrings({a \in DOMAIN srv : IsAlive(srv[a], t, timeout)}),
   servers |-> [a \in Retained(srv, t, timeout) |-> srv[a]]]

\* variant of putServer that rebuilds the map with only the reported address
putServerOnly(srv, addr, t) == [a \in {addr} |-> t]
\* putServer: create the entry with time.Now(), or refresh its start
putServer(srv, addr, t) ==
  [a \in DOMAIN srv \cup {addr} |-> IF a = addr THEN t ELSE srv[a]]

RegMethods == {"GET", "POST", "PUT"}
RegRequests ==
  {[Method |-> m, Header |-> h] :
     m \in RegMethods, h \in {NoHeader} \cup {ServerHeader :> a : a \in Addrs}}
\* the request http.Get sends
GetRequest == [Method |-> "GET", Header |-> NoHeader]
NoResponse == [Method |-> "none", Status |-> 0, Header |-> NoHeader, alive |-> <<>>]

\* variant of the handler that upserts whatever the header holds
ServeResultNoHeaderCheck(srv, req, t, timeout) ==
  IF req.Method = "GET"
  THEN LET q == aliveServer(srv, t, timeout)
       IN  [servers |-> q.servers, Status |-> StatusOK,
            Header |-> (ServersHeader :> Join(q.alive, Comma)), alive |-> q.alive]
  ELSE [servers |-> putServer(srv, HeaderGet(req.Header, ServerHeader), t),
        Status |-> StatusOK, Header |-> NoHeader, alive |-> <<>>]
\* LGRegistry.ServeHTTP: the map and the response it leaves
ServeResult(srv, req, t, timeout) ==
  CASE req.Method = "GET" ->
         LET q == aliveServer(srv, t, timeout)
         IN  [servers |-> q.servers, Status |-> StatusOK,
              Header |-> (ServersHeader :> Join(q.alive, Comma)), alive |-> q.alive]
    [] req.Method = "POST" ->
         LET addr == HeaderGet(req.Header, ServerHeader)
         IN  IF addr = EmptyString
             THEN [servers |-> srv, Status |-> StatusInternalServerError,
                   Header |-> NoHeader, alive |-> <<>>]
             ELSE [servers |-> putServer(srv, addr, t), Status |-> StatusOK,
                   Header |-> NoHeader, alive |-> <<>>]
    [] OTHER ->
         [servers |-> srv, Status |-> StatusMethodNotAllowed,
          Header |-> NoHeader, alive |-> <<>>]

\* the request is a heartbeat the handler accepts
IsUpsert(req) ==
  req.Method = "POST" /\ HeaderGet(req.Header, ServerHeader) # EmptyString

\* what serving req does to the registry's variables
Served(req) ==
  LET r == ServeResult(servers, req, now, regTimeout)
  IN  /\ servers' = r.servers
      /\ regResp' = [Method |-> req.Method, Status |-> r.Status,
                     Header |-> r.Header, alive |-> r.alive]
      /\ lastBeat' = IF IsUpsert(req)
                     THEN putServer(lastBeat, HeaderGet(req.Header, ServerHeader), now)
                     ELSE lastBeat
      /\ UNCHANGED <<now, regTimeout>>

\* LGRegistry.ServeHTTP serving one request of some HTTP client
RegistryServeHTTP(req) ==
  /\ Served(req)
  /\ UNCHANGED <<hbVars, discVars>>
  /\ UNCHANGED <<clientVars, connVars, serverVars, codecVars, handlerVars, dialVars, bcVars, xcVars,
                 unitVars>>

\* Heartbeat's defaulting of its period
HeartbeatPeriod(duration) ==
  IF duration = 0 THEN defaultTimeout - HeartbeatMargin ELSE duration
HbAddr == AddrAB
HbDurations == {0, 1, 2}
HeartbeatRequest == [Method |-> "POST", Header |-> (ServerHeader :> HbAddr)]

\* variant of the loop condition: keep sending after a failure
HbContinuesAlways(err) == TRUE
\* the goroutine's loop condition: for err == nil
HbContinues(err) == err = NoErr

\* sendHeartbeat: the POST reaches the registry and is answered (err == nil),
\* or httpClient.Do fails: before the request was served, or after it
HbSend(fail, served) ==
  /\ hbErr' = IF fail THEN "heart beat err" ELSE NoErr
  /\ hbSent' = hbSent + 1
  /\ IF served THEN Served(HeartbeatRequest) ELSE UNCHANGED regVars

\* Heartbeat: the first sendHeartbeat, then the goroutine with its ticker
HeartbeatStart ==
  /\ hbPc = "start"
  /\ \E fail \in BOOLEAN, served \in BOOLEAN :
       /\ fail \/ served
       /\ HbSend(fail, served)
       /\ hbPc' = IF HbContinues(hbErr') THEN "loop" ELSE "stopped"
  /\ hbDuration' = HeartbeatPeriod(hbDuration)
  /\ hbStart' = now
  /\ hbDue' = now + hbDuration'
  /\ UNCHANGED discVars
  /\ UNCHANGED <<clientVars, connVars, serverVars, codecVars, handlerVars, dialVars, bcVars, xcVars,
                 unitVars>>

\* the goroutine receives a tick and sends one heartbeat
HeartbeatTick ==
  /\ hbPc = "loop"
  /\ hbDue <= now
  /\ \E fail \in BOOLEAN, served \in BOOLEAN :
       /\ fail \/ served
       /\ HbSend(fail, served)
       /\ hbPc' = IF HbContinues(hbErr') THEN "loop" ELSE "stopped"
  /\ hbDue' = hbDue + hbDuration
  /\ UNCHANGED <<hbStart, hbDuration>>
  /\ UNCHANGED discVars
  /\ UNCHANGED <<clientVars, connVars, serverVars, codecVars, handlerVars, dialVars, bcVars, xcVars,
                 unitVars>>

\* a tick is waiting to be received by the heartbeat goroutine
TickPending == hbPc = "loop" /\ hbDue <= now

\* time passes; a heartbeat that is due is sent before the next time unit
Tick ==
  /\ now < MaxTime
  /\ ~TickPending
  /\ now' = now + 1
  /\ UNCHANGED <<regTimeout, servers, lastBeat, regResp>>
  /\ UNCHANGED <<hbVars, discVars>>
  /\ UNCHANGED <<clientVars, connVars, serverVars, codecVars, handlerVars, dialVars, bcVars, xcVars,
                 unitVars>>

(***************************************************************************)
(* Discovery (xclient/discovery.go, xclient/discover_lrpc.go): the static  *)
(* list with its round-robin cursor, and the variant that embeds it and    *)
(* refreshes the list from the registry. Where a discovery runs, the unit  *)
(* of the clock is ten seconds.                                            *)
(***************************************************************************)
MaxCursor == 3               \* NewMultiServersDiscovery draws the cursor from 0 .. MaxCursor
MaxGets == 4                 \* round-robin selections recorded between two updates
Space == 32                  \* ' '
RandomSelect == 0
RoundRobinSelect == 1
InvalidSelect == 2           \* a SelectMode that is neither
SelectModes == {RandomSelect, RoundRobinSelect, InvalidSelect}
defaultUpdateTimeout == 1    \* time.Second * 10
ZeroTime == 0 - (MaxTime + 1)    \* time.Time{}: before every reading of the clock
AddrX == <<120>>             \* "x"
AddrY == <<121>>             \* "y"
ListABC == <<AddrA, AddrAB, AddrB>>
ListXY == <<AddrX, AddrY>>
StaticLists == {<<>>, ListABC, ListXY}
DiscoveryServersHeader == "X-LRPC-Servers"
ErrNoServer == "rpc discovery: no server available"
ErrInvalidMode == "rpc discovery: invalid select mode"
ErrGetRegistry == "rpc registry: get registry error"
NoRet == [op |-> "none", addr |-> EmptyString, list |-> <<>>, err |-> NoErr]

\* strings.Split(s, sep) for a one-byte separator: "" splits into [""]
RECURSIVE Split(_, _)
Split(s, sep) ==
  IF \A i \in 1 .. Len(s) : s[i] # sep THEN <<s>>
  ELSE LET k == CHOOSE i \in 1 .. Len(s) : s[i] = sep /\ \A j \in 1 .. i - 1 : s[j] # sep
       IN  <<SubSeq(s, 1, k - 1)>> \o Split(SubSeq(s, k + 1, Len(s)), sep)

\* strings.TrimSpace, the space being the only white space of the model
RECURSIVE TrimSpace(_)
TrimSpace(s) ==
  IF s = <<>> THEN s
  ELSE IF Head(s) = Space THEN TrimSpace(Tail(s))
  ELSE IF s[Len(s)] = Space THEN TrimSpace(SubSeq(s, 1, Len(s) - 1))
  ELSE s

\* the loop of Refresh: the trimmed tokens that are not empty, in order
RECURSIVE TrimmedTokens(_)
TrimmedTokens(tokens) ==
  IF tokens = <<>> THEN <<>>
  ELSE (IF TrimSpace(Head(tokens)) # EmptyString
        THEN <<TrimSpace(Head(tokens))>> ELSE <<>>) \o TrimmedTokens(Tail(tokens))

\* variant of Refresh that reads the header the registry sets
RefreshReadsServersHeader(hdr) ==
  TrimmedTokens(Split(HeaderGet(hdr, ServersHeader), Comma))
\* the address list Refresh builds from the response's header
RefreshServers(hdr) ==
  TrimmedTokens(Split(HeaderGet(hdr, DiscoveryServersHeader), Comma))

\* NewGRegistryDiscovery's defaulting of the staleness window
UpdateTimeout(timeout) == IF timeout = 0 THEN defaultUpdateTimeout ELSE timeout

\* variant of the test that never finds the list fresh
WithinWindowNever(last, timeout, t) == FALSE
\* the test of Refresh: lastUpdate.Add(timeout).After(time.Now())
WithinWindow(last, timeout, t) == last + timeout > t

\* variant of the advance that keeps counting without the modulus
AdvanceUnbounded(index, n) == index + 1
\* the cursor after a round-robin selection over n servers
Advance(index, n) == (index + 1) % n

\* variant of the update that restarts the rotation
IndexAfterUpdateReset(index) == 0
\* Update assigns the list and leaves the cursor alone
IndexAfterUpdate(index) == index

\* variant of Get whose switch has no default case: every mode other than
\* random is served as round-robin
StaticGetNoDefault(list, mode) ==
  LET n == Len(list)
  IN  IF n = 0
      THEN /\ discRet' = [NoRet EXCEPT !.op = "Get", !.err = ErrNoServer]
           /\ UNCHANGED <<discIndex, discGot>>
      ELSE IF mode = RandomSelect
      THEN /\ \E i \in 0 .. n - 1 :
                discRet' = [NoRet EXCEPT !.op = "Get", !.addr = list[i + 1]]
           /\ UNCHANGED <<discIndex, discGot>>
      ELSE /\ discRet' = [NoRet EXCEPT !.op = "Get", !.addr = list[(discIndex % n) + 1]]
           /\ discIndex' = Advance(discIndex, n)
           /\ discGot' = IF discKind = "static"
                         THEN Append(discGot, list[(discIndex % n) + 1]) ELSE discGot

\* MultiServersDiscovery.Get over the list it finds; the round-robin
\* selections of a static discovery are recorded
StaticGet(list, mode) ==
  LET n == Len(list)
  IN  IF n = 0
      THEN /\ discRet' = [NoRet EXCEPT !.op = "Get", !.err = ErrNoServer]
           /\ UNCHANGED <<discIndex, discGot>>
      ELSE IF mode = RandomSelect
      THEN /\ \E i \in 0 .. n - 1 :
                discRet' = [NoRet EXCEPT !.op = "Get", !.addr = list[i + 1]]
           /\ UNCHANGED <<discIndex, discGot>>
      ELSE IF mode = RoundRobinSelect
      THEN /\ discRet' = [NoRet EXCEPT !.op = "Get", !.addr = list[(discIndex % n) + 1]]
           /\ discIndex' = Advance(discIndex, n)
           /\ discGot' = IF discKind = "static"
                         THEN Append(discGot, list[(discIndex % n) + 1]) ELSE discGot
      ELSE /\ discRet' = [NoRet EXCEPT !.op = "Get", !.err = ErrInvalidMode]
           /\ UNCHANGED <<discIndex, discGot>>

\* GRegistryDiscovery.Refresh: nothing inside the staleness window; otherwise
\* one GET, which fails (before or after the registry served it) or whose
\* header becomes the list. ok: Refresh returns nil.
Refreshed(ok) ==
  IF WithinWindow(discLastUpdate, discTimeout, now)
  THEN /\ ok
       /\ discQueried' = "no"
       /\ UNCHANGED <<discServers, discLastUpdate, discSince, regVars>>
  ELSE \/ /\ ~ok
          /\ discQueried' = "failed"
          /\ Served(GetRequest) \/ UNCHANGED regVars
          /\ UNCHANGED <<discServers, discLastUpdate, discSince>>
       \/ /\ ok
          /\ discQueried' = "answered"
          /\ Served(GetRequest)
          /\ discServers' = RefreshServers(regResp'.Header)
          /\ discLastUpdate' = now
          /\ discSince' = now

\* Refresh(): of the static discovery it does nothing
DiscRefresh ==
  /\ \E ok \in BOOLEAN :
       /\ IF discKind = "registry"
          THEN Refreshed(ok)
          ELSE ok /\ UNCHANGED <<discServers, discLastUpdate, discSince, discQueried, regVars>>
       /\ discRet' = [NoRet EXCEPT !.op = "Refresh",
                                   !.err = IF ok THEN NoErr ELSE ErrGetRegistry]
  /\ UNCHANGED <<discKind, discIndex, discTimeout, discCursor, discGot>>
  /\ UNCHANGED hbVars
  /\ UNCHANGED <<clientVars, connVars, serverVars, codecVars, handlerVars, dialVars, bcVars, xcVars,
                 unitVars>>

\* Get(mode): the registry-backed discovery refreshes first and returns the
\* error of a failed refresh
DiscGet(mode) ==
  /\ Len(discGot) < MaxGets
  /\ \E ok \in BOOLEAN :
       /\ IF discKind = "registry"
          THEN Refreshed(ok)
          ELSE ok /\ UNCHANGED <<discServers, discLastUpdate, discSince, discQueried, regVars>>
       /\ IF ok
          THEN StaticGet(discServers', mode)
          ELSE /\ discRet' = [NoRet EXCEPT !.op = "Get", !.err = ErrGetRegistry]
               /\ UNCHANGED <<discIndex, discGot>>
  /\ UNCHANGED <<discKind, discTimeout, discCursor>>
  /\ UNCHANGED hbVars
  /\ UNCHANGED <<clientVars, connVars, serverVars, codecVars, handlerVars, dialVars, bcVars, xcVars,
                 unitVars>>

\* GetAll(): a copy of the list, after the refresh of the registry-backed one
DiscGetAll ==
  /\ \E ok \in BOOLEAN :
       /\ IF discKind = "registry"
          THEN Refreshed(ok)
          ELSE ok /\ UNCHANGED <<discServers, discLastUpdate, discSince, discQueried, regVars>>
       /\ discRet' = IF ok THEN [NoRet EXCEPT !.op = "GetAll", !.list = discServers']
                     ELSE [NoRet EXCEPT !.op = "GetAll", !.err = ErrGetRegistry]
  /\ UNCHANGED <<discKind, discIndex, discTimeout, discCursor, discGot>>
  /\ UNCHANGED hbVars
  /\ UNCHANGED <<clientVars, connVars, serverVars, codecVars, handlerVars, dialVars, bcVars, xcVars,
                 unitVars>>

\* Update(servers): the registry-backed discovery also stamps the time
DiscUpdate(list) ==
  /\ discServers' = list
  /\ discIndex' = IndexAfterUpdate(discIndex)
  /\ discLastUpdate' = IF discKind = "registry" THEN now ELSE discLastUpdate
  /\ discSince' = IF discKind = "registry" THEN now ELSE discSince
  /\ discRet' = [NoRet EXCEPT !.op = "Update"]
  /\ discQueried' = "no"
  /\ discCursor' = discIndex'
  /\ discGot' = <<>>
  /\ UNCHANGED <<discKind, discTimeout>>
  /\ UNCHANGED <<regVars, hbVars>>
  /\ UNCHANGED <<clientVars, connVars, serverVars, codecVars, handlerVars, dialVars, bcVars, xcVars,
                 unitVars>>

(***************************************************************************)
(* Cluster client (xclient): Broadcast, its fan-out goroutines, the mutex  *)
(* that guards e, replyDone and the reply, and the context they share.     *)
(* Errors and replies are tuples that name the address they came from.     *)
(***************************************************************************)
BcAddrs == <<AddrA, AddrAB, AddrB>>          \* what GetAll returns
BcSet == Range(BcAddrs)
NilError == <<>>
ServerError(a) == <<"rpc server: error", a>>    \* call.Error of the call to a
CtxError == <<"rpc: context canceled">>
GetAllError == <<"rpc registry: get registry error">>
NoReply == <<>>                               \* the reply container as the caller passed it
ResultOf(a) == <<"reply", a>>                 \* what the server at a answers
Running == <<"running">>

\* variant that records every error, so that the last one wins
RecordsErrorAlways(err, e) == err # NilError
\* Broadcast records an error only while e is nil
RecordsError(err, e) == err # NilError /\ e = NilError

\* variant that copies every successful reply
CopiesReplyAlways(err, done) == err = NilError
\* Broadcast copies a reply only while replyDone is false
CopiesReply(err, done) == err = NilError /\ ~done

\* Broadcast up to the go statements: GetAll fails, or one goroutine per address
BroadcastStart ==
  /\ bcRet = Running
  /\ bcPc = [a \in BcSet |-> "none"]
  /\ \/ /\ bcRet' = GetAllError
        /\ UNCHANGED <<bcPc, bcReplyDone>>
     \/ /\ bcPc' = [a \in BcSet |-> "start"]
        /\ bcReplyDone' = bcReplyNil
        /\ UNCHANGED bcRet
  /\ UNCHANGED <<bcServes, bcReplyNil, bcErr, bcE, bcCancelled, bcReply, bcOrder>>
  /\ UNCHANGED <<regVars, hbVars, discVars, xcVars>>
  /\ UNCHANGED <<clientVars, connVars, serverVars, codecVars, handlerVars, dialVars,
                 unitVars>>

\* xc.call: dial, then Client.Call registers and sends the call and waits
BcSend(a) ==
  /\ bcPc[a] = "start"
  /\ bcPc' = [bcPc EXCEPT ![a] = "waiting"]
  /\ UNCHANGED <<bcServes, bcReplyNil, bcErr, bcE, bcCancelled, bcReplyDone, bcReply,
                 bcOrder, bcRet>>
  /\ UNCHANGED <<regVars, hbVars, discVars, xcVars>>
  /\ UNCHANGED <<clientVars, connVars, serverVars, codecVars, handlerVars, dialVars,
                 unitVars>>

\* the response arrives: receive completes the call and call.Done is ready
BcAnswer(a) ==
  /\ bcPc[a] = "waiting"
  /\ bcPc' = [bcPc EXCEPT ![a] = "answered"]
  /\ UNCHANGED <<bcServes, bcReplyNil, bcErr, bcE, bcCancelled, bcReplyDone, bcReply,
                 bcOrder, bcRet>>
  /\ UNCHANGED <<regVars, hbVars, discVars, xcVars>>
  /\ UNCHANGED <<clientVars, connVars, serverVars, codecVars, handlerVars, dialVars,
                 unitVars>>

\* Client.Call's select: ctx.Done() when the context is cancelled, call.Done
\* when the response has arrived, either of them when both are ready
BcReturn(a) ==
  /\ bcPc[a] \in {"waiting", "answered"}
  /\ \/ /\ bcCancelled
        /\ bcErr' = [bcErr EXCEPT ![a] = CtxError]
     \/ /\ bcPc[a] = "answered"
        /\ bcErr' = [bcErr EXCEPT ![a] = IF bcServes[a] = "ok" THEN NilError
                                          ELSE ServerError(a)]
  /\ bcPc' = [bcPc EXCEPT ![a] = "returned"]
  /\ UNCHANGED <<bcServes, bcReplyNil, bcE, bcCancelled, bcReplyDone, bcReply, bcOrder, bcRet>>
  /\ UNCHANGED <<regVars, hbVars, discVars, xcVars>>
  /\ UNCHANGED <<clientVars, connVars, serverVars, codecVars, handlerVars, dialVars,
                 unitVars>>

\* the goroutine's critical section under mu, then wg.Done
BcRecord(a) ==
  /\ bcPc[a] = "returned"
  /\ IF RecordsError(bcErr[a], bcE)
     THEN bcE' = bcErr[a] /\ bcCancelled' = TRUE
     ELSE UNCHANGED <<bcE, bcCancelled>>
  /\ IF CopiesReply(bcErr[a], bcReplyDone)
     THEN bcReply' = ResultOf(a) /\ bcReplyDone' = TRUE
     ELSE UNCHANGED <<bcReply, bcReplyDone>>
  /\ bcOrder' = Append(bcOrder, a)
  /\ bcPc' = [bcPc EXCEPT ![a] = "done"]
  /\ UNCHANGED <<bcServes, bcReplyNil, bcErr, bcRet>>
  /\ UNCHANGED <<regVars, hbVars, discVars, xcVars>>
  /\ UNCHANGED <<clientVars, connVars, serverVars, codecVars, handlerVars, dialVars,
                 unitVars>>

\* wg.Wait() returns and Broadcast returns e
BroadcastReturn ==
  /\ bcRet = Running
  /\ \A a \in BcSet : bcPc[a] = "done"
  /\ bcRet' = bcE
  /\ UNCHANGED <<bcServes, bcReplyNil, bcPc, bcErr, bcE, bcCancelled, bcReplyDone, bcReply,
                 bcOrder>>
  /\ UNCHANGED <<regVars, hbVars, discVars, xcVars>>
  /\ UNCHANGED <<clientVars, connVars, serverVars, codecVars, handlerVars, dialVars,
                 unitVars>>

(***************************************************************************)
(* Cluster client (xclient): the cache of clients by address, under        *)
(* xc.mu. Clients are numbered in the order XDial created them.            *)
(***************************************************************************)
MaxDials == 3                \* the number of clients XDial creates
XcAddrs == {AddrA, AddrB}
NoClient == 0                \* a nil *Client
ErrDial == "rpc client: dial error"

\* Client.IsAvailable
IsAvailable(c) == ~c.closing /\ ~c.shutdown

\* Client.Close on client number id: closing is set (an error is returned
\* and nothing changes when it already was)
Closed(made, ids) ==
  [i \in DOMAIN made |-> IF i \in ids THEN [made[i] EXCEPT !.closing = TRUE] ELSE made[i]]

\* variant of the eviction that leaves the entry in the map
EvictedNot(cache, addr) == cache
\* delete(xc.clients, rpcAddr)
Evicted(cache, addr) == [a \in DOMAIN cache \ {addr} |-> cache[a]]

\* the cached client of addr is there and no longer available
IsStale(addr) == addr \in DOMAIN xcClients /\ ~IsAvailable(xcMade[xcClients[addr]])

\* XClient.dial(rpcAddr), the whole of it under xc.mu: the cached client when
\* it is available; otherwise the stale one is closed and evicted and XDial
\* gives a new client, which is cached, or fails
XcDial(addr) ==
  IF addr \in DOMAIN xcClients /\ ~IsStale(addr)
  THEN /\ xcRet' = [addr |-> addr, client |-> xcClients[addr], err |-> NoErr]
       /\ UNCHANGED <<xcClients, xcMade>>
  ELSE LET closed == IF IsStale(addr) THEN Closed(xcMade, {xcClients[addr]}) ELSE xcMade
           cache == IF IsStale(addr) THEN Evicted(xcClients, addr) ELSE xcClients
           id == Len(xcMade) + 1
       IN  \/ /\ Len(xcMade) < MaxDials
              /\ xcMade' = Append(closed, [addr |-> addr, closing |-> FALSE,
                                           shutdown |-> FALSE])
              /\ xcClients' = [a \in DOMAIN cache \cup {addr} |->
                                 IF a = addr THEN id ELSE cache[a]]
              /\ xcRet' = [addr |-> addr, client |-> id, err |-> NoErr]
           \/ /\ xcMade' = closed
              /\ xcClients' = cache
              /\ xcRet' = [addr |-> addr, client |-> NoClient, err |-> ErrDial]

\* a caller's xc.call reaches dial
XClientDial(addr) ==
  /\ XcDial(addr)
  /\ UNCHANGED <<regVars, hbVars, discVars, bcVars>>
  /\ UNCHANGED <<clientVars, connVars, serverVars, codecVars, handlerVars, dialVars,
                 unitVars>>

\* XClient.Close: every cached client is closed and its entry deleted
XClientClose ==
  /\ xcMade' = Closed(xcMade, Range(xcClients))
  /\ xcClients' = <<>>
  /\ xcRet' = [addr |-> EmptyString, client |-> NoClient, err |-> NoErr]
  /\ UNCHANGED <<regVars, hbVars, discVars, bcVars>>
  /\ UNCHANGED <<clientVars, connVars, serverVars, codecVars, handlerVars, dialVars,
                 unitVars>>

\* the connection of client number id breaks: terminateCalls sets shutdown
ClientFails(id) ==
  /\ id \in DOMAIN xcMade
  /\ ~xcMade[id].shutdown
  /\ ~xcMade[id].closing
  /\ xcMade' = [xcMade EXCEPT ![id].shutdown = TRUE]
  /\ UNCHANGED <<xcClients, xcRet>>
  /\ UNCHANGED <<regVars, hbVars, discVars, bcVars>>
  /\ UNCHANGED <<clientVars, connVars, serverVars, codecVars, handlerVars, dialVars,
                 unitVars>>

(***************************************************************************)
(* readRequest's containers (server.go, service.go): newArgs and newReplyv *)
(* for the method findService resolved, the decoding of the body into the  *)
(* argument container, and the invocation that writes the reply container. *)
(* reflect.New returns an address nothing else holds.                      *)
(***************************************************************************)
\* requests readRequest resolves on the connection
MaxAlloc == 3

\* methods with a descriptor: each has three inputs, one error result and
\* parameter types that isExportedOrBuiltinType accepts
MethodType(name, argType, replyType) ==
  [name |-> name, ArgType |-> argType, ReplyType |-> replyType]

MethodTypes ==
  {MethodType("Echo", TString, PtrTo(TString)),
   MethodType("Keys", PtrTo(TArgs), PtrTo(TMap)),
   MethodType("List", TArgs, PtrTo(TSlice)),
   MethodType("Bad", TString, TString)}

NoAddr == 0

\* the zero value of a type
ZeroValue(t) == IF t.kind \in {"map", "slice", "ptr"} THEN "nil" ELSE "zero"

\* reflect.New: an address that is not in use
NewAddr(heap) == Cardinality(DOMAIN heap) + 1

\* newArgs: the type and the contents of what it allocates
newArgs(m) ==
  IF m.ArgType.kind = "ptr"
  THEN [type |-> m.ArgType.elem[1], val |-> ZeroValue(m.ArgType.elem[1])]
  ELSE [type |-> m.ArgType, val |-> ZeroValue(m.ArgType)]

\* m.ReplyType.Elem() panics unless the reply type has an element type
ReplyElemPanics(m) == m.ReplyType.elem = <<>>

\* newReplyv: the type and the contents of what it allocates
newReplyv(m) ==
  LET et == m.ReplyType.elem[1]
  IN [type |-> et,
      val |-> IF et.kind = "map" THEN "emptyMap"
              ELSE IF et.kind = "slice" THEN "emptySlice"
              ELSE ZeroValue(et)]

\* readRequest once findService has resolved the method m; ok: cc.ReadBody
\* decodes the body
ReadRequestResolved(m, ok) ==
  /\ ~rqPanic
  /\ Len(rqLog) < MaxAlloc
  /\ LET a1 == NewAddr(rqHeap)
          h1 == (a1 :> newArgs(m).val) @@ rqHeap
          a2 == NewAddr(h1)
     IN IF ReplyElemPanics(m)
        THEN /\ rqHeap' = h1
             /\ rqPanic' = TRUE
             /\ rqLog' = Append(rqLog, [method |-> m, argv |-> a1, replyv |-> NoAddr,
                                        state |-> "panic"])
        ELSE /\ rqHeap' = (a2 :> newReplyv(m).val) @@
                            [h1 EXCEPT ![a1] = IF ok THEN "decoded" ELSE @]
             /\ rqLog' = Append(rqLog, [method |-> m, argv |-> a1, replyv |-> a2,
                                        state |-> IF ok THEN "read" ELSE "badBody"])
             /\ UNCHANGED rqPanic
  /\ UNCHANGED <<clientVars, connVars, serverVars, codecVars, handlerVars, dialVars,
                 clusterVars, sendVars, closeVars, goVars>>

\* req.svc.call for the i-th resolved request: the method runs with the two
\* containers and may write its reply
Invoke(i) ==
  /\ i \in DOMAIN rqLog
  /\ rqLog[i].state = "read"
  /\ \E written \in BOOLEAN :
       rqHeap' = IF written THEN [rqHeap EXCEPT ![rqLog[i].replyv] = "result"]
                 ELSE rqHeap
  /\ rqLog' = [rqLog EXCEPT ![i].state = "called"]
  /\ UNCHANGED rqPanic
  /\ UNCHANGED <<clientVars, connVars, serverVars, codecVars, handlerVars, dialVars,
                 clusterVars, sendVars, closeVars, goVars>>

(***************************************************************************)
(* Initial states.                                                         *)
(***************************************************************************)
\* the fields of a Client as newClientCodec leaves them, before any call
InitClientFields ==
  /\ seq = FirstSeq
  /\ pending = <<>>
  /\ closing = FALSE
  /\ shutdown = FALSE
  /\ sendingOwner = None
  /\ header = [ServiceMethod |-> <<>>, Seq |-> 0, Error |-> ""]
  /\ callSeq = [c \in Calls |-> 0]
  /\ callErr = [c \in Calls |-> NoErr]
  /\ callReply = [c \in Calls |-> "unset"]
  /\ doneBuf = [c \in Calls |-> 0]
  /\ doneSent = [c \in Calls |-> 0]
  /\ pcCall = [c \in Calls |-> "start"]
  /\ callRet = [c \in Calls |-> "none"]
  /\ removedBy = [c \in Calls |-> <<>>]
  /\ issued = <<>>
  /\ writeLog = <<>>
  /\ answered = {}
  /\ pcRecv = "loop"
  /\ rh = NoMsg
  /\ rcall = NoCall
  /\ rerr = NoErr
  /\ closeRet = "none"

InitConn ==
  /\ c2s = <<>>
  /\ s2c = <<>>
  /\ cliClosed = FALSE
  /\ srvClosed = FALSE

InitServerIdle ==
  /\ serviceMap = <<>>
  /\ regLog = <<>>
  /\ srvState = "AwaitingHandshake"
  /\ srvLog = <<>>
  /\ srvOpt = NoOpt
  /\ wg = 0
  /\ peerSeq = 0

InitHandlerIdle ==
  /\ scKind = "gob"
  /\ hPc = [k \in Reqs |-> "none"]
  /\ iPc = [k \in Reqs |-> "none"]
  /\ hRes = [k \in Reqs |-> "none"]
  /\ srvSending = Unlocked
  /\ numCalls = 0

InitDialIdle ==
  /\ dKind = "raw"
  /\ dOpts = <<>>
  /\ dPc = "start"
  /\ dConn = "none"
  /\ ncPc = "none"
  /\ ncRes = NoResult
  /\ dRet = NoResult
  /\ httpReq = "none"
  /\ httpSrv = "idle"
  /\ httpWire = <<>>
  /\ httpCli = "none"

InitRegistryIdle ==
  /\ now = 0
  /\ regTimeout = defaultTimeout
  /\ servers = <<>>
  /\ lastBeat = <<>>
  /\ regResp = NoResponse

InitHeartbeatIdle ==
  /\ hbPc = "none"
  /\ hbErr = NoErr
  /\ hbSent = 0
  /\ hbStart = 0
  /\ hbDue = 0
  /\ hbDuration = 0

InitDiscoveryIdle ==
  /\ discKind = "none"
  /\ discServers = <<>>
  /\ discIndex = 0
  /\ discTimeout = defaultUpdateTimeout
  /\ discLastUpdate = ZeroTime
  /\ discSince = ZeroTime
  /\ discQueried = "no"
  /\ discRet = NoRet
  /\ discCursor = 0
  /\ discGot = <<>>

InitBroadcastIdle ==
  /\ bcServes = [a \in BcSet |-> "ok"]
  /\ bcReplyNil = FALSE
  /\ bcPc = [a \in BcSet |-> "none"]
  /\ bcErr = [a \in BcSet |-> NilError]
  /\ bcE = NilError
  /\ bcCancelled = FALSE
  /\ bcReplyDone = FALSE
  /\ bcReply = NoReply
  /\ bcOrder = <<>>
  /\ bcRet = Running

InitXClientIdle ==
  /\ xcClients = <<>>
  /\ xcMade = <<>>
  /\ xcRet = [addr |-> EmptyString, client |-> NoClient, err |-> NoErr]

InitClusterIdle ==
  /\ InitRegistryIdle /\ InitHeartbeatIdle /\ InitDiscoveryIdle
  /\ InitBroadcastIdle /\ InitXClientIdle

\* no request has been resolved
InitAllocIdle ==
  /\ rqHeap = << >>
  /\ rqLog = <<>>
  /\ rqPanic = FALSE

\* no send is between its assignments to the header and its write
InitSendIdle == hdrSet = [c \in Calls |-> FALSE]

\* Close has not been called
InitCloseIdle == ccCloseCalls = 0

\* every call has a Done channel of its own, made by Client.Call
InitGoIdle ==
  /\ doneChan = [c \in Calls |-> c]
  /\ doneCap = [ch \in Calls |-> DoneCap]
  /\ termPc = "none"
  /\ termLeft = {}

InitUnitIdle == InitAllocIdle /\ InitSendIdle /\ InitCloseIdle /\ InitGoIdle

InitAuxIdle == InitHandlerIdle /\ InitDialIdle /\ InitClusterIdle /\ InitUnitIdle

InitCodecIdle ==
  /\ cdPc = "idle"
  /\ cdH = [ServiceMethod |-> <<>>, Seq |-> 0, Error |-> ""]
  /\ cdB = "none"
  /\ cdWire = <<>>
  /\ cdClosed = FALSE
  /\ cdRH = [ServiceMethod |-> <<>>, Seq |-> 0, Error |-> ""]
  /\ cdRB = "none"
  /\ cdErr = NoErr

(***************************************************************************)
(* SpecClient: one client built by newClientCodec over any implementation  *)
(* of codec.Codec, its callers, its response reader and its peer.          *)
(***************************************************************************)
InitClient ==
  /\ cliState = "up"
  /\ ccKind = "iface"
  /\ InitAuxIdle
  /\ InitClientFields
  /\ InitConn
  /\ InitServerIdle
  /\ InitCodecIdle

ClientStep ==
  \/ \E c \in Calls : SendRegister(c)
  \/ \E c \in Calls : SendWrite(c)
  \/ \E c \in Calls : SendWriteFail(c)
  \/ \E c \in Calls : CallDone(c)
  \/ RecvReadHeader
  \/ RecvRemoveCall
  \/ RecvBody
  \/ TerminateCalls

NextClient ==
  \/ ClientStep
  \/ \E c \in Calls : CallCancel(c)
  \/ ClientClose
  \/ \E m \in PeerMsgs : PeerSend(m)
  \/ ConnFail

SpecClient == InitClient /\ [][NextClient]_vars

\* the Go scheduler runs every goroutine that can take a step; cancellation,
\* Close and the peer are not obliged to act
FairSpecClient == SpecClient /\ WF_vars(ClientStep)

(***************************************************************************)
(* SpecServer: one server, its Register calls, and one connection served   *)
(* by ServeConn whose peer sends a handshake option and requests.          *)
(***************************************************************************)
InitServer ==
  /\ cliState = "none"
  /\ ccKind = "gob"
  /\ InitAuxIdle
  /\ InitClientFields
  /\ \E o \in OptFrames : c2s = <<o>>
  /\ s2c = <<>>
  /\ cliClosed = FALSE
  /\ srvClosed = FALSE
  /\ InitServerIdle
  /\ InitCodecIdle

NextServer ==
  \/ \E r \in Rcvrs : Register(r)
  \/ SrvHandshake
  \/ SrvReadRequest
  \/ SrvDrain
  \/ \E sm \in ServiceMethods : PeerRequest(sm)
  \/ PeerClose

SpecServer == InitServer /\ [][NextServer]_vars

(***************************************************************************)
(* GobCodec on its own (codec/codec.go): one end writes a header and a     *)
(* body, the other end of the same stream reads them back.                 *)
(***************************************************************************)
CodecHeaders ==
  {[ServiceMethod |-> sm, Seq |-> n, Error |-> e] :
     sm \in {EchoMethod, <<>>}, n \in 0 .. MaxReq, e \in {"", "boom"}}

\* body shapes: strings, an empty map, an empty slice, a one-element slice
CodecBodies == {"ping", "", "map[]", "[]", "[1]"}

\* the writing end calls Write(&h, body)
CodecWrite ==
  /\ cdPc = "idle"
  /\ cdWire' = GobCodecWrite(cdWire, cdH, cdB)
  /\ cdErr' = GobCodecWriteResult
  /\ cdPc' = "written"
  /\ UNCHANGED <<cdH, cdB, cdClosed, cdRH, cdRB>>
  /\ UNCHANGED <<clientVars, connVars, serverVars>>
  /\ UNCHANGED auxVars

\* GobCodec.Close on the writing end: c.conn.Close()
CodecClose ==
  /\ cdPc # "idle"
  /\ ~cdClosed
  /\ cdClosed' = TRUE
  /\ UNCHANGED <<cdPc, cdH, cdB, cdWire, cdRH, cdRB, cdErr>>
  /\ UNCHANGED <<clientVars, connVars, serverVars>>
  /\ UNCHANGED auxVars

\* GobCodec.ReadHeader on the reading end: dec.Decode(header) blocks until a
\* value or the end of the stream arrives
CodecReadHeader ==
  /\ cdPc = "written"
  /\ cdWire # <<>> \/ cdClosed
  /\ IF cdWire # <<>> /\ Head(cdWire).k = "hdr"
     THEN /\ cdRH' = Head(cdWire).v
          /\ cdErr' = NoErr
     ELSE /\ cdErr' = IF cdWire = <<>> THEN "EOF" ELSE "decodeErr"
          /\ UNCHANGED cdRH
  /\ cdWire' = IF cdWire = <<>> THEN cdWire ELSE Tail(cdWire)
  /\ cdPc' = "hdrRead"
  /\ UNCHANGED <<cdH, cdB, cdClosed, cdRB>>
  /\ UNCHANGED <<clientVars, connVars, serverVars>>
  /\ UNCHANGED auxVars

\* GobCodec.ReadBody on the reading end: dec.Decode(body)
CodecReadBody ==
  /\ cdPc = "hdrRead"
  /\ cdWire # <<>> \/ cdClosed
  /\ IF cdWire # <<>> /\ Head(cdWire).k = "body"
     THEN /\ cdRB' = Head(cdWire).v
          /\ cdErr' = NoErr
     ELSE /\ cdErr' = IF cdWire = <<>> THEN "EOF" ELSE "decodeErr"
          /\ UNCHANGED cdRB
  /\ cdWire' = IF cdWire = <<>> THEN cdWire ELSE Tail(cdWire)
  /\ cdPc' = "bodyRead"
  /\ UNCHANGED <<cdH, cdB, cdClosed, cdRH>>
  /\ UNCHANGED <<clientVars, connVars, serverVars>>
  /\ UNCHANGED auxVars

InitCodec ==
  /\ cliState = "none"
  /\ ccKind = "gob"
  /\ InitAuxIdle
  /\ InitClientFields
  /\ InitConn
  /\ InitServerIdle
  /\ cdPc = "idle"
  /\ cdH \in CodecHeaders
  /\ cdB \in CodecBodies
  /\ cdWire = <<>>
  /\ cdClosed = FALSE
  /\ cdRH = [ServiceMethod |-> <<>>, Seq |-> 0, Error |-> ""]
  /\ cdRB = "none"
  /\ cdErr = NoErr

NextCodec == CodecWrite \/ CodecClose \/ CodecReadHeader \/ CodecReadBody

SpecCodec == InitCodec /\ [][NextCodec]_vars

(***************************************************************************)
(* End to end: a server on which Foo (with method Echo) is registered, and *)
(* a client that dials it with the default option and calls Foo.Echo.      *)
(***************************************************************************)
DialOptions == {NilOption}

\* Dial: parseOptins, then NewClient: the codec constructor is looked up, the
\* option is JSON-encoded to the connection, newClientCodec starts receive
ClientDial(o) ==
  /\ cliState = "none"
  /\ LET opt == parseOptins(o) IN
       IF ~CodecRegistered(opt.codec)
       THEN /\ cliState' = "dialfail"
            /\ cliClosed' = TRUE
            /\ UNCHANGED c2s
       ELSE /\ cliState' = "up"
            /\ c2s' = Append(c2s, opt)
            /\ UNCHANGED cliClosed
  /\ UNCHANGED <<ccKind, seq, pending, closing, shutdown, sendingOwner,
                 header, callSeq, callErr, callReply, doneBuf, doneSent,
                 pcCall, callRet, removedBy, issued, writeLog, answered,
                 pcRecv, rh, rcall, rerr, closeRet>>
  /\ UNCHANGED <<s2c, srvClosed>>
  /\ UNCHANGED <<serverVars, codecVars>>
  /\ UNCHANGED auxVars

InitE2E ==
  /\ cliState = "none"
  /\ ccKind = "gob"
  /\ InitAuxIdle
  /\ InitClientFields
  /\ InitConn
  /\ serviceMap = (<<"Foo">> :> RegisterStores(newService("Foo")))
  /\ regLog = <<[name |-> <<"Foo">>, err |-> NoErr]>>
  /\ srvState = "AwaitingHandshake"
  /\ srvLog = <<>>
  /\ srvOpt = NoOpt
  /\ wg = 0
  /\ peerSeq = 0
  /\ InitCodecIdle

\* The steps the two programs take by themselves.  No frame ever reaches s2c
\* or the request loop's header branch here, because GobCodec.Write writes
\* none; the reader's response path is therefore exercised in SpecClient.
E2EStep ==
  \/ \E o \in DialOptions : ClientDial(o)
  \/ \E c \in Calls : SendRegister(c)
  \/ \E c \in Calls : SendWrite(c)
  \/ \E c \in Calls : CallDone(c)
  \/ RecvReadHeader
  \/ TerminateCalls
  \/ SrvHandshake
  \/ SrvReadRequest
  \/ SrvDrain

NextE2E ==
  \/ E2EStep
  \/ \E r \in Rcvrs : Register(r)
  \/ ClientClose

SpecE2E == InitE2E /\ [][NextE2E]_vars

\* every goroutine that can take a step is eventually scheduled
FairSpecE2E == SpecE2E /\ WF_vars(E2EStep)

(***************************************************************************)
(* SpecHandler: serverCodec serving one connection through a codec that    *)
(* writes what it is given, on a server whose serviceMap holds the service *)
(* Foo; the peer sends requests for Foo.Echo and for the malformed FooEcho.*)
(***************************************************************************)
HandlerOption(t) ==
  [k |-> "opt", json |-> TRUE, magic |-> MagicNumber, codec |-> GOBType, ht |-> t]

HandlerMethods == {EchoMethod, <<"FooEcho">>}

InitHandler ==
  /\ cliState = "none"
  /\ ccKind = "gob"
  /\ InitClientFields
  /\ InitConn
  /\ InitCodecIdle
  /\ serviceMap = (<<"Foo">> :> newService("Foo"))
  /\ regLog = <<>>
  /\ srvState = "Serving"
  /\ srvLog = <<>>
  /\ srvOpt \in {HandlerOption(t) : t \in {0, 1}}
  /\ wg = 0
  /\ peerSeq = 0
  /\ scKind = "iface"
  /\ hPc = [k \in Reqs |-> "none"]
  /\ iPc = [k \in Reqs |-> "none"]
  /\ hRes = [k \in Reqs |-> "none"]
  /\ srvSending = Unlocked
  /\ numCalls = 0
  /\ InitDialIdle
  /\ InitClusterIdle
  /\ InitUnitIdle

\* the steps the server's goroutines take once they can
HandlerStep ==
  \/ SrvReadRequest
  \/ SrvDrain
  \/ \E k \in Reqs : InvokeStart(k)
  \/ \E k \in Reqs : HandlerCalled(k)
  \/ \E k \in Reqs : HandlerSent(k)
  \/ \E w \in Writers : SrvSendHdr(w)
  \/ \E w \in Writers : SrvSendBody(w)

NextHandler ==
  \/ HandlerStep
  \/ \E k \in Reqs : InvokeReturn(k)
  \/ \E k \in Reqs : HandlerTimeout(k)
  \/ \E sm \in HandlerMethods : PeerRequest(sm)
  \/ PeerClose

SpecHandler == InitHandler /\ [][NextHandler]_vars

\* every goroutine that can take a step is scheduled; a method may run for
\* ever and a timer may fire as late as it likes
FairSpecHandler == SpecHandler /\ WF_vars(HandlerStep)

(***************************************************************************)
(* SpecDial: one Dial or DialHTTP, or one foreign HTTP request.            *)
(***************************************************************************)
InitDial ==
  /\ cliState = "none"
  /\ ccKind = "gob"
  /\ InitClientFields
  /\ InitConn
  /\ InitServerIdle
  /\ InitCodecIdle
  /\ InitHandlerIdle
  /\ InitClusterIdle
  /\ InitUnitIdle
  /\ dKind \in {"raw", "http", "foreign"}
  /\ dOpts \in DialArgs
  /\ dPc = IF dKind = "foreign" THEN "none" ELSE "start"
  /\ dConn = "none"
  /\ ncPc = "none"
  /\ ncRes = NoResult
  /\ dRet = NoResult
  /\ httpReq = "none"
  /\ httpSrv = "idle"
  /\ httpWire = <<>>
  /\ httpCli = "none"

NextDial ==
  \/ DialStart
  \/ NcNewClient
  \/ NcConnect
  \/ ServeHTTP
  \/ NcReadStatus
  \/ DialResult
  \/ DialTimeout
  \/ \E m \in {"GET", "POST"} : ForeignRequest(m)

SpecDial == InitDial /\ [][NextDial]_vars

(***************************************************************************)
(* Properties of the client call multiplexer.                              *)
(***************************************************************************)
(* Specification: one registry and the HTTP clients sending it requests    *)
(* (heartbeat senders and discoveries among them) while time passes.       *)
(***************************************************************************)
InitRegistry ==
  /\ cliState = "none"
  /\ ccKind = "gob"
  /\ InitClientFields
  /\ InitConn
  /\ InitServerIdle
  /\ InitCodecIdle
  /\ InitHandlerIdle
  /\ InitDialIdle
  /\ InitUnitIdle
  /\ InitXClientIdle
  /\ InitBroadcastIdle
  /\ InitDiscoveryIdle
  /\ InitHeartbeatIdle
  /\ now = 0
  /\ regTimeout \in RegTimeouts
  /\ servers = <<>>
  /\ lastBeat = <<>>
  /\ regResp = NoResponse

NextRegistry ==
  \/ \E req \in RegRequests : RegistryServeHTTP(req)
  \/ Tick

SpecRegistry == InitRegistry /\ [][NextRegistry]_vars

(***************************************************************************)
(* Specification: one server process running Heartbeat against a registry  *)
(* that a discovery polls.                                                 *)
(***************************************************************************)
InitHeartbeat ==
  /\ cliState = "none"
  /\ ccKind = "gob"
  /\ InitClientFields
  /\ InitConn
  /\ InitServerIdle
  /\ InitCodecIdle
  /\ InitHandlerIdle
  /\ InitDialIdle
  /\ InitUnitIdle
  /\ InitXClientIdle
  /\ InitBroadcastIdle
  /\ InitDiscoveryIdle
  /\ now = 0
  /\ regTimeout \in RegTimeouts
  /\ servers = <<>>
  /\ lastBeat = <<>>
  /\ regResp = NoResponse
  /\ hbPc = "start"
  /\ hbErr = NoErr
  /\ hbSent = 0
  /\ hbStart = 0
  /\ hbDue = 0
  /\ hbDuration \in HbDurations

NextHeartbeat ==
  \/ HeartbeatStart
  \/ HeartbeatTick
  \/ RegistryServeHTTP(GetRequest)
  \/ Tick

SpecHeartbeat == InitHeartbeat /\ [][NextHeartbeat]_vars

\* the ticker fires and the goroutine is scheduled; time does not stop
FairSpecHeartbeat ==
  SpecHeartbeat /\ WF_vars(HeartbeatStart) /\ WF_vars(HeartbeatTick) /\ WF_vars(Tick)

(***************************************************************************)
TypeOKClient ==
  /\ seq \in Nat
  /\ DOMAIN pending \subseteq 1 .. NCalls + 1
  /\ \A c \in Calls : doneBuf[c] \in 0 .. DoneCap
  /\ sendingOwner \in {None, "caller"}
  /\ pcRecv \in {"loop", "hdr", "body", "term", "done"}

\* C2: whatever the interleaving of the senders, the response reader, a
\* connection failure and Close, no call's Done channel is sent on twice, and
\* once the reader has terminated every call whose send has returned and that
\* was not cancelled has been signalled exactly once.
C2_DoneExactlyOnce ==
  /\ \A c \in Calls : doneSent[c] <= 1
  /\ \A c \in Calls :
       (pcCall[c] = "ret" /\ callRet[c] # "ctxErr") => doneSent[c] = 1
  /\ \A c \in Calls :
       (pcRecv = "done" /\ pcCall[c] = "wait") => doneSent[c] = 1

\* the reader has terminated, every call was signalled once, one of them by a
\* response and another one by terminateCalls
C2_Witness ==
  /\ pcRecv = "done"
  /\ \A c \in Calls : doneSent[c] = 1
  /\ \E c \in Calls : callReply[c] = "pong"
  /\ \E c \in Calls : callErr[c] = "readErr"

\* C3: the sequence counter starts at 1 and the numbers registerCall returns
\* are strictly increasing, so no two calls of the connection share one.
C3_SeqStrictlyIncreasing ==
  /\ seq >= FirstSeq
  /\ issued # <<>> => issued[1] = FirstSeq
  /\ \A i, j \in DOMAIN issued : i < j => issued[i] < issued[j]
  /\ \A i \in DOMAIN issued : issued[i] < seq
  /\ \A c, d \in Calls :
       (c # d /\ callSeq[c] # 0 /\ callSeq[d] # 0) => callSeq[c] # callSeq[d]

\* every caller got a number, and one of the calls is already finished
C3_Witness ==
  /\ Len(issued) = NCalls
  /\ \E c \in Calls : callSeq[c] # 0 /\ callSeq[c] \notin DOMAIN pending
  /\ \E c \in Calls : callSeq[c] \in DOMAIN pending

\* C4: once the connection is down the reader terminates, and when it has,
\* the client is shut down and every call still in the pending table has the
\* read error as its error and its completion signalled.
C4_ReadErrorResolvesPending ==
  /\ [](pcRecv = "done" =>
          /\ shutdown
          /\ rerr # NoErr
          /\ \A c \in PendingCalls(pending) :
               callErr[c] = rerr /\ doneSent[c] = 1)
  /\ ((cliClosed \/ srvClosed) ~> (pcRecv = "done"))

\* the connection failed with every call pending, and the reader resolved them
C4_Witness ==
  /\ pcRecv = "done"
  /\ srvClosed
  /\ PendingCalls(pending) = Calls
  /\ \A c \in Calls : callErr[c] = "readErr" /\ doneSent[c] = 1

\* C5: a call that has been resolved had its entry deleted from the pending
\* table exactly once, by the response, the write failure or the cancellation,
\* or by the fatal connection error.
C5_RemovedExactlyOnce ==
  \A c \in Calls :
    /\ Len(removedBy[c]) <= 1
    /\ (callSeq[c] # 0 /\ (doneSent[c] >= 1 \/ pcCall[c] = "ret")) =>
         (Len(removedBy[c]) = 1 /\ callSeq[c] \notin DOMAIN pending)

\* C6: once every call has returned and the reader has terminated (the client
\* is shut down), no sequence number is left in the pending table.
C6_PendingReleased ==
  (pcRecv = "done" /\ \A c \in Calls : pcCall[c] = "ret") => DOMAIN pending = {}

(***************************************************************************)
(* Properties of the server: handshake, registry and request loop.         *)
(***************************************************************************)
TypeOKServer ==
  /\ srvState \in {"AwaitingHandshake", "Serving", "Draining", "Closed", "Panicked"}
  /\ wg \in Nat
  /\ peerSeq \in 0 .. MaxReq
  /\ Len(regLog) <= MaxReg

\* C10: a connection whose handshake option does not decode as JSON, carries a
\* magic number other than MagicNumber, or names a codec without a registered
\* constructor ends in Closed with no request read and no response written;
\* only a connection that passed all three checks is ever served.
C10_HandshakeFailureCloses ==
  LET passed == /\ srvOpt.k = "opt"
                /\ srvOpt.json
                /\ srvOpt.magic = MagicNumber
                /\ srvOpt.codec = GOBType
  IN /\ (srvOpt # NoOpt /\ ~passed) =>
          /\ srvState = "Closed"
          /\ srvLog = <<>>
          /\ s2c = <<>>
          /\ wg = 0
     /\ srvState \in {"Serving", "Draining", "Panicked"} => passed
     /\ srvLog # <<>> => passed

\* a well-formed JSON option with a wrong magic number was read while a request
\* was already waiting, and the connection is closed
C10_Witness ==
  /\ srvState = "Closed"
  /\ srvOpt.k = "opt"
  /\ srvOpt.json
  /\ srvOpt.magic # MagicNumber
  /\ srvOpt.codec = GOBType
  /\ peerSeq > 0

\* C7: when a receiver is registered a second time under the same name, the
\* first Register succeeded, the second fails with "service already defined",
\* and findService still resolves every method of the first service.
C7_DuplicateRegisterKeepsFirst ==
  \A i, j \in DOMAIN regLog :
    (i < j /\ regLog[i].name = regLog[j].name /\ regLog[i].err = NoErr) =>
      /\ regLog[j].err = "already defined"
      /\ \A m \in newService(Head(regLog[i].name)).method :
           LET fs == findService(serviceMap, regLog[i].name \o <<".", m>>)
           IN fs.out = "ok" /\ fs.svc = regLog[i].name /\ fs.mtype = <<m>>

\* C9: after a request whose method string is malformed or names an unknown
\* service or method, an error response with that request's sequence number is
\* on the wire, the server is still Serving unless the peer closed, and the
\* next read starts at a request header.
C9_LookupErrorKeepsServing ==
  \A i \in DOMAIN srvLog :
    srvLog[i].res = "lookupErr" =>
      /\ \E j \in DOMAIN s2c : s2c[j].Seq = srvLog[i].Seq /\ s2c[j].Error # ""
      /\ srvState = "Serving" \/ cliClosed
      /\ c2s # <<>> => Head(c2s).k = "hdr"

(***************************************************************************)
(* Properties of the codec and of the composed system.                     *)
(***************************************************************************)
\* C8: once a header and a body were written with Write and the other end has
\* called ReadHeader and ReadBody, both reads succeeded and returned a header
\* and a body equal to the ones written (an empty map or slice reads back as
\* empty).
C8_CodecRoundTrip ==
  cdPc = "bodyRead" => (cdErr = NoErr /\ cdRH = cdH /\ cdRB = cdB)

\* C1: with Foo.Echo registered and the client dialled, the first Call of
\* Foo.Echo with "ping" eventually returns reply "ping" and no error, sent with
\* sequence number 1, unless the client is closed first.
C1_EchoCompletes ==
  <>(\/ closing
     \/ /\ pcCall[1] = "ret"
        /\ callRet[1] = NoErr
        /\ callReply[1] = "ping"
        /\ callSeq[1] = FirstSeq)

(***************************************************************************)
(* Properties of registerCall, of a failed write and of cancellation.      *)
(***************************************************************************)
\* C15: the step of registerCall fails with ErrShutdown when the client is
\* closing or shut down and then leaves seq and the pending table as they
\* were; otherwise it returns the current seq, advances seq by one and adds
\* exactly that entry to the pending table.
C15_RegisterCall ==
  [][\A c \in Calls :
       (pcCall[c] = "start" /\ pcCall'[c] # "start") =>
         IF closing \/ shutdown
         THEN /\ callErr'[c] = ErrShutdown
              /\ callSeq'[c] = 0
              /\ seq' = seq
              /\ pending' = pending
         ELSE /\ callSeq'[c] = seq
              /\ seq' = seq + 1
              /\ DOMAIN pending' = DOMAIN pending \cup {seq}
              /\ pending'[seq] = c
              /\ \A x \in DOMAIN pending : pending'[x] = pending[x]
              /\ callErr'[c] = NoErr]_vars

\* one call was registered while the client was open, the connection failed
\* and the reader shut the client down, and a later call was refused
C15_Witness ==
  /\ shutdown
  /\ ~closing
  /\ \E c \in Calls : callSeq[c] # 0
  /\ \E c \in Calls : callSeq[c] = 0 /\ callErr[c] = ErrShutdown

\* C16: once send has returned for a call whose request the codec failed to
\* write, the call is out of the pending table, carries the write error and
\* was signalled once, so its caller finds the signal waiting.
C16_WriteFailureResolvesCall ==
  \A c \in Calls :
    (callSeq[c] # 0 /\ pcCall[c] \in {"wait", "ret"}
       /\ callSeq[c] \notin Range(writeLog)) =>
      /\ callSeq[c] \notin DOMAIN pending
      /\ callErr[c] = "werr"
      /\ doneSent[c] = 1
      /\ removedBy[c] = <<"write">>
      /\ pcCall[c] = "wait" => doneBuf[c] = 1

\* a call whose write failed has returned the write error to its caller
C16_Witness ==
  \E c \in Calls :
    /\ pcCall[c] = "ret"
    /\ callRet[c] = "werr"
    /\ callSeq[c] # 0
    /\ callSeq[c] \notin Range(writeLog)

\* C17: a Call that returned the cancellation error has no entry in the
\* pending table, and when the reader finds no call for a header it has read
\* on a live connection, it consumes the body, changes no call, raises no
\* error and goes back to reading headers.
C17_CancelThenLateResponse ==
  /\ [](\A c \in Calls : callRet[c] = "ctxErr" => callSeq[c] \notin DOMAIN pending)
  /\ [][(pcRecv = "body" /\ pcRecv' # "body" /\ rcall = NoCall /\ ~cliClosed) =>
          /\ pcRecv' = "loop"
          /\ rerr' = NoErr
          /\ s2c' = Tail(s2c)
          /\ callReply' = callReply
          /\ callErr' = callErr
          /\ doneSent' = doneSent
          /\ shutdown' = shutdown]_vars

\* a written call was cancelled, its response arrived afterwards, and the
\* reader has discarded it and is reading again
C17_Witness ==
  \E c \in Calls :
    /\ callRet[c] = "ctxErr"
    /\ removedBy[c] = <<"cancel">>
    /\ callSeq[c] \in answered
    /\ s2c = <<>>
    /\ pcRecv = "loop"
    /\ ~shutdown

\* C18: the step that cancels a call, and the step that delivers a server
\* error response (such as a handle timeout) to a call, leave every other
\* call's pending entry, reply, error and signal as they were, and leave the
\* client's closing and shutdown flags unchanged.
C18_TimeoutAffectsOneCall ==
  [][\A c \in Calls :
       (\/ pcCall[c] = "wait" /\ pcCall'[c] = "ret" /\ callRet'[c] = "ctxErr"
        \/ pcRecv = "body" /\ pcRecv' # "body" /\ rcall = c /\ rh.Error # "") =>
         /\ closing' = closing
         /\ shutdown' = shutdown
         /\ \A d \in Calls \ {c} :
              /\ (callSeq[d] \in DOMAIN pending) <=> (callSeq[d] \in DOMAIN pending')
              /\ callReply'[d] = callReply[d]
              /\ callErr'[d] = callErr[d]
              /\ doneSent'[d] = doneSent[d]]_vars

\* one call was cancelled and another call of the same client has returned
\* its reply without error on the still open client
C18_Witness ==
  \E c, d \in Calls :
    /\ c # d
    /\ callRet[c] = "ctxErr"
    /\ pcCall[d] = "ret"
    /\ callRet[d] = NoErr
    /\ callReply[d] = "pong"
    /\ ~shutdown /\ ~closing

(***************************************************************************)
(* Properties of handleRequest, sendResponse and the draining of a         *)
(* connection.                                                             *)
(***************************************************************************)
TypeOKHandler ==
  /\ \A k \in Reqs : hPc[k] \in {"none", "run", "waitSent", "tmo", "tmoBody", "done"}
  /\ \A k \in Reqs : iPc[k] \in {"none", "start", "calling", "called", "send",
                                 "sendBody", "sent", "exit"}
  /\ srvSending \in Writers \cup {Unlocked}
  /\ wg \in 0 .. MaxReq
  /\ numCalls \in 0 .. MaxReq

\* the response headers on the wire that carry sequence number k
ResponsesFor(k) == {i \in DOMAIN s2c : s2c[i].k = "hdr" /\ s2c[i].h.Seq = k}

\* a complete response (header and body) for request k is on the wire
Answered(k) == \E i \in ResponsesFor(k) : i + 1 \in DOMAIN s2c

\* handleRequest of request k took the timer's case of its select
TimedOut(k) ==
  \/ hPc[k] \in {"tmo", "tmoBody"}
  \/ hPc[k] = "done" /\ iPc[k] # "exit"

\* C11: when the timer of request k fires first, handleRequest writes the
\* timeout response for k and returns without the invocation having to
\* finish; the invocation goes on, but its goroutine never gets to write: the
\* only response for k is the one timeout response.
C11_TimeoutResponse ==
  /\ [](\A k \in Reqs :
          TimedOut(k) =>
            /\ srvOpt.ht # 0
            /\ iPc[k] \in {"start", "calling", "called"}
            /\ \A i \in ResponsesFor(k) : s2c[i].h.Error = "call timeout"
            /\ Cardinality(ResponsesFor(k)) <= 1
            /\ hPc[k] = "done" =>
                 (Cardinality(ResponsesFor(k)) = 1 /\ Answered(k)))
  /\ \A k \in Reqs :
       (hPc[k] = "tmo") ~> (hPc[k] = "done" /\ Answered(k))

\* request 1 timed out and was answered while its invocation was running; the
\* invocation has returned since, and the timeout response is still the only
\* response
C11_Witness ==
  /\ hPc[1] = "done"
  /\ iPc[1] = "called"
  /\ hRes[1] = "ok"
  /\ Len(s2c) = 2
  /\ s2c[1].h.Seq = 1
  /\ s2c[1].h.Error = "call timeout"

C13_ResponsesDoNotInterleave ==
  LET Inside == {w \in Writers :
                   IF w[1] = "inner" THEN iPc[w[2]] = "sendBody"
                   ELSE hPc[w[2]] = "tmoBody"}
  IN /\ Cardinality(Inside) <= 1
     /\ \A w \in Inside : srvSending = w
     /\ (Inside = {}) => (srvSending = Unlocked /\ Len(s2c) % 2 = 0)
     /\ \A i \in DOMAIN s2c :
          s2c[i].k = (IF i % 2 = 1 THEN "hdr" ELSE "body")
     /\ \A i \in DOMAIN s2c :
          (i % 2 = 0) => ((s2c[i].v = "ping") <=> (s2c[i - 1].h.Error = ""))

\* a timeout response and a normal response are on the wire, and a third
\* writer holds the lock in the middle of its response
C13_Witness ==
  /\ \E i \in DOMAIN s2c : s2c[i].k = "hdr" /\ s2c[i].h.Error = "call timeout"
  /\ \E i \in DOMAIN s2c : s2c[i].k = "hdr" /\ s2c[i].h.Error = ""
  /\ srvSending # Unlocked

\* the read loop is at a well-formed request j for a registered method
ReadyRequest(j) ==
  /\ srvState = "Serving"
  /\ Len(c2s) >= 2
  /\ c2s[1].k = "hdr"
  /\ c2s[1].h.Seq = j
  /\ findService(serviceMap, c2s[1].h.ServiceMethod).out = "ok"
  /\ BodyDecodes(c2s[2])

\* C14: a request the read loop has reached is read and its method invoked,
\* and a request whose method has returned is answered, without any other
\* request's invocation having to return: the methods of the other requests
\* may run for ever.
C14_SlowHandlerDoesNotBlock ==
  /\ \A j \in Reqs : ReadyRequest(j) ~> (iPc[j] \notin {"none", "start"})
  /\ \A j \in Reqs : (iPc[j] = "called") ~> Answered(j)

\* with handleTimeout zero, request 2 was read, invoked and answered while the
\* method of request 1 is still running
C14_Witness ==
  /\ srvOpt.ht = 0
  /\ iPc[1] = "calling"
  /\ iPc[2] = "exit"
  /\ Answered(2)
  /\ ~Answered(1)

(***************************************************************************)
(* Properties of dialTimeout and of the HTTP tunnel.                       *)
(***************************************************************************)
TypeOKDial ==
  /\ dPc \in {"none", "start", "spawned", "ret"}
  /\ dConn \in {"none", "open", "closed"}
  /\ ncPc \in {"none", "run", "connect", "res", "exit"}
  /\ httpSrv \in {"idle", "rejected", "hijacked", "hijackError"}

\* C19: when dialTimeout has returned, an error comes with no client and a
\* transport that is not open, a client comes with no error and an open
\* transport, and a return taken while the construction of the client has not
\* delivered its result is the "connect timeout" error of a nonzero
\* ConnectTimeout, with the transport closed.
C19_DialTimeoutClosesTransport ==
  /\ [](dPc = "ret" =>
          /\ dRet.err # NoErr => (~dRet.client /\ dConn # "open")
          /\ dRet.err = NoErr => (dRet.client /\ dConn = "open")
          /\ dRet.err = "connect timeout" =>
               (ConnectTimeoutOf(dOpts) # 0 /\ dConn = "closed"))
  /\ [][(dPc = "spawned" /\ dPc' = "ret" /\ ncPc # "res") =>
          /\ dRet'.err = "connect timeout"
          /\ ~dRet'.client
          /\ dConn' = "closed"]_vars

\* the timer fired while the goroutine constructing the client was still at
\* work: dialTimeout returned the timeout error and the transport is closed
C19_Witness ==
  /\ dPc = "ret"
  /\ dRet.err = "connect timeout"
  /\ ncPc \in {"run", "connect"}
  /\ dConn = "closed"

\* C20: once ServeHTTP has taken over the transport of a CONNECT request, the
\* status line it wrote parses as an HTTP response whose status is the
\* connected status NewHTTPClient compares with; and a request with another
\* method is answered with status 405 and the transport is not taken over.
C20_HTTPTunnelConnects ==
  /\ httpSrv = "hijacked" =>
       /\ ReadResponse(httpWire).err = NoErr
       /\ ReadResponse(httpWire).Status = connected
       /\ httpCli # "refused" \/ dConn = "closed"
  /\ (httpReq \notin {"none", "CONNECT"} /\ httpSrv # "idle") =>
       /\ httpSrv = "rejected"
       /\ ReadResponse(httpWire).err = NoErr
       /\ Head(ReadResponse(httpWire).Status) = "405"

(***************************************************************************)
(* Specification: a static discovery and its callers.                      *)
(***************************************************************************)
InitStatic ==
  /\ cliState = "none"
  /\ ccKind = "gob"
  /\ InitClientFields
  /\ InitConn
  /\ InitServerIdle
  /\ InitCodecIdle
  /\ InitHandlerIdle
  /\ InitDialIdle
  /\ InitUnitIdle
  /\ InitXClientIdle
  /\ InitBroadcastIdle
  /\ InitRegistryIdle
  /\ InitHeartbeatIdle
  /\ discKind = "static"
  /\ discServers \in StaticLists
  /\ discIndex \in 0 .. MaxCursor
  /\ discTimeout = defaultUpdateTimeout
  /\ discLastUpdate = ZeroTime
  /\ discSince = ZeroTime
  /\ discQueried = "no"
  /\ discRet = NoRet
  /\ discCursor = discIndex
  /\ discGot = <<>>

NextStatic ==
  \/ \E mode \in SelectModes : DiscGet(mode)
  \/ DiscGetAll
  \/ DiscRefresh
  \/ \E list \in StaticLists : DiscUpdate(list)

SpecStatic == InitStatic /\ [][NextStatic]_vars

(***************************************************************************)
(* Specification: a registry-backed discovery, the registry it polls, and  *)
(* the servers whose heartbeats reach that registry.                       *)
(***************************************************************************)
DiscTimeouts == {0, 2}
HeartbeatRequests ==
  {[Method |-> "POST", Header |-> (ServerHeader :> a)] : a \in {AddrA, AddrB}}
UpdateLists == {<<AddrB, AddrA>>}

InitDiscovery ==
  /\ cliState = "none"
  /\ ccKind = "gob"
  /\ InitClientFields
  /\ InitConn
  /\ InitServerIdle
  /\ InitCodecIdle
  /\ InitHandlerIdle
  /\ InitDialIdle
  /\ InitUnitIdle
  /\ InitXClientIdle
  /\ InitBroadcastIdle
  /\ InitHeartbeatIdle
  /\ now = 0
  /\ regTimeout \in RegTimeouts \ {0}
  /\ servers = <<>>
  /\ lastBeat = <<>>
  /\ regResp = NoResponse
  /\ discKind = "registry"
  /\ discServers = <<>>
  /\ discIndex = 0
  /\ discTimeout \in {UpdateTimeout(t) : t \in DiscTimeouts}
  /\ discLastUpdate = ZeroTime
  /\ discSince = ZeroTime
  /\ discQueried = "no"
  /\ discRet = NoRet
  /\ discCursor = discIndex
  /\ discGot = <<>>

NextDiscovery ==
  \/ DiscGet(RoundRobinSelect)
  \/ DiscGetAll
  \/ DiscRefresh
  \/ \E list \in UpdateLists : DiscUpdate(list)
  \/ \E req \in HeartbeatRequests : RegistryServeHTTP(req)
  \/ Tick

SpecDiscovery == InitDiscovery /\ [][NextDiscovery]_vars

(***************************************************************************)
(* Specification: one Broadcast over three addresses, each of which        *)
(* answers the call with a reply or with an error, under a context that    *)
(* nobody else cancels.                                                    *)
(***************************************************************************)
InitBroadcast ==
  /\ cliState = "none"
  /\ ccKind = "gob"
  /\ InitClientFields
  /\ InitConn
  /\ InitServerIdle
  /\ InitCodecIdle
  /\ InitHandlerIdle
  /\ InitDialIdle
  /\ InitUnitIdle
  /\ InitXClientIdle
  /\ InitRegistryIdle
  /\ InitHeartbeatIdle
  /\ InitDiscoveryIdle
  /\ bcServes \in [BcSet -> {"ok", "err"}]
  /\ bcReplyNil \in BOOLEAN
  /\ bcPc = [a \in BcSet |-> "none"]
  /\ bcErr = [a \in BcSet |-> NilError]
  /\ bcE = NilError
  /\ bcCancelled = FALSE
  /\ bcReplyDone = FALSE
  /\ bcReply = NoReply
  /\ bcOrder = <<>>
  /\ bcRet = Running

NextBroadcast ==
  \/ BroadcastStart
  \/ \E a \in BcSet : BcSend(a)
  \/ \E a \in BcSet : BcAnswer(a)
  \/ \E a \in BcSet : BcReturn(a)
  \/ \E a \in BcSet : BcRecord(a)
  \/ BroadcastReturn

SpecBroadcast == InitBroadcast /\ [][NextBroadcast]_vars

(***************************************************************************)
(* Specification: one XClient, callers that reach dial for two addresses,  *)
(* connections that break, and Close.                                      *)
(***************************************************************************)
InitXClient ==
  /\ cliState = "none"
  /\ ccKind = "gob"
  /\ InitClientFields
  /\ InitConn
  /\ InitServerIdle
  /\ InitCodecIdle
  /\ InitHandlerIdle
  /\ InitDialIdle
  /\ InitUnitIdle
  /\ InitRegistryIdle
  /\ InitHeartbeatIdle
  /\ InitDiscoveryIdle
  /\ InitBroadcastIdle
  /\ InitXClientIdle

NextXClient ==
  \/ \E addr \in XcAddrs : XClientDial(addr)
  \/ XClientClose
  \/ \E id \in 1 .. MaxDials : ClientFails(id)

SpecXClient == InitXClient /\ [][NextXClient]_vars

(***************************************************************************)
(* Claims about the registry.                                              *)
(***************************************************************************)
IsString(s) == s \in Seq(Int)
TypeOKRegistry ==
  /\ now \in Times
  /\ regTimeout \in RegTimeouts
  /\ DOMAIN servers \subseteq Addrs
  /\ \A a \in DOMAIN servers : servers[a] \in 0 .. now
  /\ DOMAIN lastBeat \subseteq Addrs
  /\ regResp.Status \in {0, StatusOK, StatusInternalServerError, StatusMethodNotAllowed}

\* the addresses a liveness query at time t has to return, from the history of
\* heartbeats: those whose last heartbeat plus the timeout is after t, or
\* every address that ever sent one when the timeout is 0
DueAlive(t) ==
  {a \in DOMAIN lastBeat : regTimeout = 0 \/ lastBeat[a] + regTimeout > t}

IsSortedStrings(ss) ==
  \A i \in 1 .. Len(ss) : \A j \in 1 .. Len(ss) : i < j => LexLess(ss[i], ss[j])

\* C21: a liveness query at time now returns, in lexicographic order and
\* without repetition, exactly the addresses whose last heartbeat plus the
\* timeout is strictly after now; with timeout 0, every address that ever
\* sent a heartbeat.
C21_LivenessQuery ==
  [][\A req \in {r \in RegRequests : r.Method = "GET"} :
       RegistryServeHTTP(req) =>
         /\ Range(regResp'.alive) = DueAlive(now)
         /\ IsSortedStrings(regResp'.alive)
         /\ regTimeout = 0 => Range(regResp'.alive) = DOMAIN lastBeat]_vars

\* a query answered with two addresses in order, one of them registered,
\* expired, dropped by an earlier query and registered again, while a third
\* address is expired and left out
C21_Witness ==
  /\ regResp.Method = "GET"
  /\ regResp.alive = <<AddrA, AddrAB>>
  /\ regTimeout # 0
  /\ AddrB \in DOMAIN lastBeat
  /\ AddrB \notin DOMAIN servers
  /\ servers[AddrA] > regTimeout
\* the step serves a liveness query
IsQueryStep == \E req \in {r \in RegRequests : r.Method = "GET"} : RegistryServeHTTP(req)
\* the step serves a heartbeat of address a
IsUpsertStep(a) ==
  \E req \in {r \in RegRequests : r.Method = "POST"} :
    /\ HeaderGet(req.Header, ServerHeader) = a
    /\ RegistryServeHTTP(req)
\* the entry of address a has aged past the timeout at time t
ExpiredAt(a, t) == regTimeout # 0 /\ servers[a] + regTimeout <= t

\* C22: expiry is lazy. An entry leaves the mapping only in a liveness query
\* that finds it expired; such a query leaves no expired entry behind and
\* changes no entry it keeps; a heartbeat upsert sets the entry of its own
\* address to the current time and leaves every other address as it was; no
\* other step changes the mapping.
C22_LazyExpiry ==
  [][/\ \A a \in DOMAIN servers \ DOMAIN servers' : IsQueryStep /\ ExpiredAt(a, now)
     /\ IsQueryStep =>
          /\ \A a \in DOMAIN servers : ExpiredAt(a, now) => a \notin DOMAIN servers'
          /\ \A a \in DOMAIN servers' : a \in DOMAIN servers /\ servers'[a] = servers[a]
     /\ \A a \in Addrs : IsUpsertStep(a) =>
          /\ a \in DOMAIN servers' /\ servers'[a] = now
          /\ \A b \in Addrs \ {a} :
               /\ b \in DOMAIN servers' <=> b \in DOMAIN servers
               /\ b \in DOMAIN servers => servers'[b] = servers[b]
     /\ servers' # servers => IsQueryStep \/ \E a \in Addrs : IsUpsertStep(a)]_vars

\* a query has just removed an expired entry and kept a live one, and before
\* it the expired entry had stayed in the mapping although time had passed
C22_Witness ==
  /\ regResp.Method = "GET"
  /\ Len(regResp.alive) = 1
  /\ DOMAIN servers = Range(regResp.alive)
  /\ \E a \in DOMAIN lastBeat \ DOMAIN servers : lastBeat[a] + regTimeout < now
\* C30: a POST that carries the address header sets that address's entry to
\* the current time; a POST without the header is answered with status 500
\* and a request whose method is neither GET nor POST with status 405, and
\* both leave the address mapping as it was.
C30_RegistryProtocol ==
  [][\A req \in RegRequests : RegistryServeHTTP(req) =>
       LET addr == HeaderGet(req.Header, ServerHeader)
       IN  /\ (req.Method = "POST" /\ addr # EmptyString) =>
                /\ addr \in DOMAIN servers' /\ servers'[addr] = now
                /\ regResp'.Status = StatusOK
           /\ (req.Method = "POST" /\ addr = EmptyString) =>
                /\ regResp'.Status = StatusInternalServerError
                /\ servers' = servers
           /\ req.Method \notin {"GET", "POST"} =>
                /\ regResp'.Status = StatusMethodNotAllowed
                /\ servers' = servers]_vars

\* a POST without the address header was refused while the mapping held
\* entries
C30_Witness ==
  /\ regResp.Method = "POST"
  /\ regResp.Status = StatusInternalServerError
  /\ DOMAIN servers # {}
(***************************************************************************)
(* Claims about the heartbeat sender.                                      *)
(***************************************************************************)
TypeOKHeartbeat ==
  /\ TypeOKRegistry
  /\ hbPc \in {"start", "loop", "stopped"}
  /\ hbErr \in {NoErr, "heart beat err"}
  /\ hbSent \in 0 .. MaxTime + 1
  /\ hbDuration \in 0 .. defaultTimeout

\* the number of whole periods that have elapsed since the ticker was made
PeriodsElapsed == (now - hbStart) \div hbDuration

\* C26: the sender makes one initial send, then one send per elapsed period
\* while no send has failed (a send that is due happens before time moves
\* on), and once a send has failed, the initial one included, it makes no
\* further send.
C26_HeartbeatStopsOnFailure ==
  /\ <>(hbSent >= 1)
  /\ [](hbPc = "loop" => hbErr = NoErr)
  /\ []((hbPc = "loop" /\ ~TickPending) => hbSent = 1 + PeriodsElapsed)
  /\ (TickPending ~> ~TickPending)
  /\ [][hbErr # NoErr => hbSent' = hbSent]_vars
  /\ [][hbSent' \in {hbSent, hbSent + 1}]_vars

\* the second send failed, and a further period has gone by without a send
C26_Witness ==
  /\ hbPc = "stopped"
  /\ hbErr # NoErr
  /\ hbSent = 2
  /\ now >= hbDue
  /\ now >= hbStart + 2 * hbDuration
(***************************************************************************)
(* Claims about discovery.                                                 *)
(***************************************************************************)
TypeOKDiscovery ==
  /\ discKind \in {"static", "registry"}
  /\ discServers \in Seq(Addrs \cup {AddrX, AddrY})
  /\ discIndex \in 0 .. MaxCursor
  /\ discLastUpdate \in Times \cup {ZeroTime}
  /\ discLastUpdate = discSince
  /\ discQueried \in {"no", "answered", "failed"}
  /\ discRet.op \in {"none", "Get", "GetAll", "Refresh", "Update"}
  /\ Len(discGot) <= MaxGets
\* the rotation A, B, C, A, B, C, ... as far as selections are recorded
RotationABC == [i \in 1 .. MaxGets |-> ListABC[((i - 1) % Len(ListABC)) + 1]]

\* C23: round-robin selection of the static discovery. The i-th selection
\* since the list was assigned is the element at (cursor at that time + i - 1)
\* modulo the length of the list, so over [A,B,C] from cursor 0 the
\* selections are A,B,C,A,...; each selection advances the cursor to
\* (cursor + 1) modulo the length; Update leaves the cursor as it is; and an
\* address a Get returns is a member of the list.
C23_RoundRobin ==
  /\ [](\A i \in 1 .. Len(discGot) :
          /\ discServers # <<>>
          /\ discGot[i] = discServers[((discCursor + i - 1) % Len(discServers)) + 1])
  /\ []((discServers = ListABC /\ discCursor = 0) =>
          discGot = SubSeq(RotationABC, 1, Len(discGot)))
  /\ []((discRet.op = "Get" /\ discRet.err = NoErr) => discRet.addr \in Range(discServers))
  /\ [][(DiscGet(RoundRobinSelect) /\ discServers # <<>>) =>
          /\ discRet'.addr = discServers[(discIndex % Len(discServers)) + 1]
          /\ discIndex' = (discIndex + 1) % Len(discServers)]_vars
  /\ [][\A list \in StaticLists : DiscUpdate(list) => discIndex' = discIndex]_vars

\* after A and B were selected from [A,B,C], the list became [X,Y] and the
\* next selection, with the stored cursor 2, returned X
C23_Witness ==
  /\ discKind = "static"
  /\ discServers = ListXY
  /\ discCursor = 2
  /\ discGot = <<AddrX>>
  /\ discRet.op = "Get"
  /\ discRet.addr = AddrX
  /\ discIndex = 1
\* the last operation of the discovery was a refresh that queried the
\* registry and succeeded, and nothing has reached the registry since
JustRefreshed ==
  /\ discKind = "registry"
  /\ discQueried = "answered"
  /\ discLastUpdate = now
  /\ regResp.Method = "GET"

\* C24: after a refresh that queried the registry, the address list of the
\* discovery is the list of alive addresses the registry's liveness query
\* returned to its GET handler.
C24_RefreshMatchesRegistry == JustRefreshed => discServers = regResp.alive
\* the step is a Refresh, a Get or a GetAll of the discovery
IsRefreshingStep == DiscRefresh \/ DiscGetAll \/ \E mode \in SelectModes : DiscGet(mode)

\* C25: a Refresh, Get or GetAll made less than the staleness window after
\* the last successful refresh or Update sends no query, and leaves the
\* registry, the address list and the last-refresh time as they were; made
\* later, it sends one. A query that fails gives its error to the caller
\* and leaves the list and the last-refresh time as they were, so that the
\* list is still stale for the next call.
C25_RefreshRateLimited ==
  [][(discKind = "registry" /\ IsRefreshingStep) =>
       /\ discSince + discTimeout > now =>
            /\ discQueried' = "no"
            /\ UNCHANGED <<regVars, discServers, discLastUpdate>>
       /\ discSince + discTimeout <= now => discQueried' # "no"
       /\ discQueried' = "failed" =>
            /\ discRet'.err = ErrGetRegistry
            /\ UNCHANGED <<discServers, discLastUpdate>>
            /\ discLastUpdate' + discTimeout <= now'
       /\ discRet'.err = ErrGetRegistry => discQueried' = "failed"]_vars

\* a Get made one time unit after an Update, inside a window of two, went
\* without a query while the registry held an address
C25_Witness ==
  /\ discKind = "registry"
  /\ discRet.op = "Get"
  /\ discQueried = "no"
  /\ discSince # ZeroTime
  /\ now = discSince + 1
  /\ discServers # <<>>
  /\ DOMAIN servers # {}
(***************************************************************************)
(* Claims about Broadcast.                                                 *)
(***************************************************************************)
BcErrors == {NilError, CtxError} \cup {ServerError(a) : a \in BcSet}
TypeOKBroadcast ==
  /\ bcServes \in [BcSet -> {"ok", "err"}]
  /\ bcPc \in [BcSet -> {"none", "start", "waiting", "answered", "returned", "done"}]
  /\ bcErr \in [BcSet -> BcErrors]
  /\ bcE \in BcErrors
  /\ bcReply \in {NoReply} \cup {ResultOf(a) : a \in BcSet}
  /\ bcRet \in BcErrors \cup {Running, GetAllError}
  /\ Range(bcOrder) = {a \in BcSet : bcPc[a] = "done"}
\* Broadcast has returned from its fan-out
BcReturned == bcRet # Running /\ \A a \in BcSet : bcPc[a] = "done"

\* the error of the first goroutine, in the order they took the mutex, whose
\* call failed; nil when no call failed
FirstErrorObserved ==
  LET failed == {i \in 1 .. Len(bcOrder) : bcErr[bcOrder[i]] # NilError}
  IN  IF failed = {} THEN NilError
      ELSE bcErr[bcOrder[CHOOSE i \in failed : \A j \in failed : i <= j]]

\* the addresses whose server answers with an error
FailingAddrs == {a \in BcSet : bcServes[a] = "err"}

\* C28: Broadcast returns the error of the first call, in the order the
\* calls finished, that failed, and nil exactly when no call failed; the
\* shared context is cancelled exactly when an error has been recorded; and
\* when exactly one address answers with an error, Broadcast returns that
\* error, whichever calls the cancellation reached.
C28_BroadcastFirstError ==
  /\ bcCancelled <=> bcE # NilError
  /\ BcReturned =>
       /\ bcRet = FirstErrorObserved
       /\ bcRet = NilError <=> \A a \in BcSet : bcErr[a] = NilError
       /\ \A a \in BcSet : FailingAddrs = {a} => bcRet = ServerError(a)

\* one address failed; a call that succeeded finished first, the failing
\* call second, and the third call then returned the cancellation error,
\* which was not the one returned
C28_Witness ==
  /\ BcReturned
  /\ FailingAddrs = {AddrAB}
  /\ bcOrder = <<AddrB, AddrAB, AddrA>>
  /\ bcErr[AddrA] = CtxError
  /\ bcRet = ServerError(AddrAB)
\* the reply of the first goroutine, in the order they took the mutex, whose
\* call succeeded; the container as it was passed when no call succeeded
FirstSuccessReply ==
  LET succeeded == {i \in 1 .. Len(bcOrder) : bcErr[bcOrder[i]] = NilError}
  IN  IF succeeded = {} THEN NoReply
      ELSE ResultOf(bcOrder[CHOOSE i \in succeeded : \A j \in succeeded : i <= j])

\* C29 as stated: with a reply container and three addresses of which one
\* answers with an error and two with a reply, the container holds one of
\* the two replies when Broadcast returns.
C29_ReplyHoldsOneSuccess ==
  (BcReturned /\ ~bcReplyNil /\ Cardinality(FailingAddrs) = 1) =>
    bcReply \in {ResultOf(a) : a \in BcSet \ FailingAddrs}

\* C29 as amended: when Broadcast returns, the container holds the reply of
\* the first call that returned success and is as the caller passed it when
\* no call did, which happens when the cancellation that follows the error
\* ends both other calls; once filled the container is not written again;
\* with one call failed and two returned successfully it holds one of their
\* two replies.
C29_ReplyHoldsFirstSuccess ==
  /\ []((BcReturned /\ ~bcReplyNil) => bcReply = FirstSuccessReply)
  /\ [](bcReplyNil => bcReply = NoReply)
  /\ []((BcReturned /\ ~bcReplyNil /\ Cardinality(FailingAddrs) = 1
           /\ \A a \in BcSet \ FailingAddrs : bcErr[a] = NilError) =>
          bcReply \in {ResultOf(a) : a \in BcSet \ FailingAddrs})
  /\ [][bcReply # NoReply => bcReply' = bcReply]_vars

\* two calls succeeded and one failed in between: the container holds the
\* reply of the first and the later success was ignored
C29_Witness ==
  /\ BcReturned
  /\ ~bcReplyNil
  /\ FailingAddrs = {AddrAB}
  /\ bcOrder = <<AddrB, AddrAB, AddrA>>
  /\ bcErr[AddrA] = NilError
  /\ bcReply = ResultOf(AddrB)
(***************************************************************************)
(* Claims about the client cache.                                          *)
(***************************************************************************)
TypeOKXClient ==
  /\ DOMAIN xcClients \subseteq XcAddrs
  /\ \A a \in DOMAIN xcClients : xcClients[a] \in 1 .. Len(xcMade)
  /\ Len(xcMade) <= MaxDials
  /\ xcRet.client \in 0 .. Len(xcMade)

\* the clients created for address a that nobody has closed
OpenClients(a) == {i \in DOMAIN xcMade : xcMade[i].addr = a /\ ~xcMade[i].closing}

\* C27: dial returns the cached client when one is cached and available and
\* then changes nothing; otherwise it closes the cached client, if any, and
\* either caches and returns a client that did not exist before or fails
\* and leaves no entry for the address. At all times an address has at most
\* one client that has not been closed, the one cached under it, and a
\* cached client was dialled for the address it is cached under.
C27_DialCache ==
  /\ [](\A a \in XcAddrs :
          /\ Cardinality(OpenClients(a)) <= 1
          /\ \A i \in OpenClients(a) : a \in DOMAIN xcClients /\ xcClients[a] = i
          /\ a \in DOMAIN xcClients => xcMade[xcClients[a]].addr = a)
  /\ [][\A a \in XcAddrs : XClientDial(a) =>
          IF a \in DOMAIN xcClients /\ IsAvailable(xcMade[xcClients[a]])
          THEN /\ xcRet'.client = xcClients[a]
               /\ xcRet'.err = NoErr
               /\ UNCHANGED <<xcClients, xcMade>>
          ELSE /\ a \in DOMAIN xcClients => xcMade'[xcClients[a]].closing
               /\ xcRet'.err = NoErr =>
                    /\ xcRet'.client = Len(xcMade) + 1
                    /\ xcClients'[a] = xcRet'.client
                    /\ IsAvailable(xcMade'[xcRet'.client])
               /\ xcRet'.err # NoErr =>
                    /\ xcRet'.client = NoClient
                    /\ a \notin DOMAIN xcClients'
               /\ \A b \in XcAddrs \ {a} :
                    /\ b \in DOMAIN xcClients' <=> b \in DOMAIN xcClients
                    /\ b \in DOMAIN xcClients => xcClients'[b] = xcClients[b]]_vars

\* the client cached for an address had broken, and the dial that found it
\* so failed: the address has no entry, the old client is closed, and the
\* other address still has its client
C27_Witness ==
  /\ xcRet.addr = AddrA
  /\ xcRet.err = ErrDial
  /\ AddrA \notin DOMAIN xcClients
  /\ \E i \in DOMAIN xcMade :
       xcMade[i].addr = AddrA /\ xcMade[i].shutdown /\ xcMade[i].closing
  /\ AddrB \in DOMAIN xcClients

(***************************************************************************)
(* Claims about the method registry.                                       *)
(***************************************************************************)
\* the shape the method registry asks of a method: one argument and one reply
\* parameter besides the receiver, one result of type error, both parameter
\* types exported or built-in
HasRequiredShape(m) ==
  /\ m.numIn - 1 = 2
  /\ m.numOut = 1 /\ m.outIsError
  /\ m.argOK /\ m.replyOK

\* C31: for every service that Register accepted, a method has a descriptor
\* if and only if it has the required shape, and a call that names a method
\* without a descriptor is answered by findService with the "can't find
\* method" error.
C31_MethodRegistry ==
  \A i \in DOMAIN regLog :
    regLog[i].err = NoErr =>
      LET r == Head(regLog[i].name)
      IN \A m \in RcvrMethods(r) :
           /\ m.name \in newService(r).method <=> HasRequiredShape(m)
           /\ ~HasRequiredShape(m) =>
                LET fs == findService(serviceMap, <<r, ".", m.name>>)
                IN fs.out = "err" /\ fs.err = "no method"

\* C32: Get of the static discovery returns the "no server available" error
\* for every mode when the list is empty, and the "invalid select mode" error
\* when the list is not empty and the mode is neither random nor round-robin;
\* in both cases no address is returned and the list and the round-robin
\* cursor stay as they were. For the two valid modes over a non-empty list it
\* returns no error.
C32_SelectionErrors ==
  [][\A mode \in SelectModes :
       (discKind = "static" /\ DiscGet(mode)) =>
         /\ discRet'.op = "Get"
         /\ discServers = <<>> =>
              /\ discRet'.err = ErrNoServer
              /\ discRet'.addr = EmptyString
              /\ UNCHANGED <<discServers, discIndex, discGot>>
         /\ (discServers # <<>> /\ mode \notin {RandomSelect, RoundRobinSelect}) =>
              /\ discRet'.err = ErrInvalidMode
              /\ discRet'.addr = EmptyString
              /\ UNCHANGED <<discServers, discIndex, discGot>>
         /\ (discServers # <<>> /\ mode \in {RandomSelect, RoundRobinSelect}) =>
              discRet'.err = NoErr]_vars

\* after two round-robin selections over [A,B,C] a Get with an invalid mode
\* returned its error, the cursor still at 2
C32_Witness ==
  /\ discKind = "static"
  /\ discServers = ListABC
  /\ discGot = <<AddrA, AddrAB>>
  /\ discIndex = 2
  /\ discRet.op = "Get"
  /\ discRet.err = ErrInvalidMode

(***************************************************************************)
(* Claims about the ownership of a call and the order of requests.         *)
(***************************************************************************)
\* C33: once Client.Call has returned for a call, by its completion signal or
\* by cancellation, no step writes that call's reply container or its error
\* field.
C33_OwnershipReverts ==
  [][\A c \in Calls :
       pcCall[c] = "ret" =>
         /\ callReply'[c] = callReply[c]
         /\ callErr'[c] = callErr[c]]_vars

(***************************************************************************)
(* Specification: the requests one connection's readRequest resolves, for  *)
(* a service whose four methods all have a descriptor, and their           *)
(* invocations.                                                            *)
(***************************************************************************)
InitAlloc ==
  /\ cliState = "none"
  /\ ccKind = "gob"
  /\ InitClientFields
  /\ InitConn
  /\ InitServerIdle
  /\ InitCodecIdle
  /\ InitHandlerIdle
  /\ InitDialIdle
  /\ InitClusterIdle
  /\ InitAllocIdle
  /\ InitSendIdle
  /\ InitCloseIdle
  /\ InitGoIdle

NextAlloc ==
  \/ \E m \in MethodTypes : \E ok \in BOOLEAN : ReadRequestResolved(m, ok)
  \/ \E i \in 1 .. MaxAlloc : Invoke(i)

SpecAlloc == InitAlloc /\ [][NextAlloc]_vars

(***************************************************************************)
(* Claims about the containers of a request.                               *)
(***************************************************************************)
TypeOKAlloc ==
  /\ Len(rqLog) <= MaxAlloc
  /\ DOMAIN rqHeap = 1 .. Cardinality(DOMAIN rqHeap)
  /\ rqPanic \in BOOLEAN

\* the addresses a resolved request holds
Containers(r) == {r.argv, r.replyv}

NextResponses ==
  \/ NextHandler
  \/ PeerBadBody(EchoMethod)

SpecResponses == InitHandler /\ [][NextResponses]_vars

(***************************************************************************)
(* Claims about the responses of a connection.                             *)
(***************************************************************************)
\* the requests whose header the read loop has read
HeadersRead == {srvLog[i].Seq : i \in DOMAIN srvLog}

\* what the read loop did with request k
Outcome(k) == srvLog[CHOOSE i \in DOMAIN srvLog : srvLog[i].Seq = k].res

SendStep ==
  \/ \E c \in Calls : SendRegister(c)
  \/ \E c \in Calls : SendPopulate(c)
  \/ \E c \in Calls : SendWriteOut(c)
  \/ \E c \in Calls : SendWriteFail(c)
  \/ \E c \in Calls : CallDone(c)

NextSend ==
  \/ SendStep
  \/ \E c \in Calls : CallCancel(c)
  \/ ClientClose
  \/ RecvReadHeader
  \/ TerminateCalls

SpecSend == InitClient /\ [][NextSend]_vars

\* the callers inside the critical section of client.sending
InSend == {c \in Calls : pcCall[c] \in {"write", "wfail"}}

\* C36: the sequence numbers of the headers handed to the codec are strictly
\* increasing; at most one sender is between locking and unlocking
\* client.sending; and the header a sender hands to the codec carries the
\* sequence number and the method of that sender's own call, so that no other
\* sender has assigned the shared header since this one did.
C36_SendOrder ==
  /\ [](\A i, j \in DOMAIN writeLog : i < j => writeLog[i] < writeLog[j])
  /\ [](Cardinality(InSend) <= 1)
  /\ [](\A c \in Calls :
          (pcCall[c] = "write" /\ hdrSet[c]) =>
            /\ header.Seq = callSeq[c]
            /\ header.ServiceMethod = CallMethod(c))
  /\ [][\A c \in Calls :
          SendWriteOut(c) =>
            /\ header.Seq = callSeq[c]
            /\ header.ServiceMethod = CallMethod(c)
            /\ header.Error = ""]_vars

\* both callers' requests were handed to the codec, in the order 1, 2
C36_Witness ==
  /\ writeLog = <<FirstSeq, FirstSeq + 1>>
  /\ header.Seq = FirstSeq + 1
  /\ \A c \in Calls : hdrSet[c]

(***************************************************************************)
(* Claims about the status of a client.                                    *)
(***************************************************************************)
\* Client.IsAvailable of the client
ClientIsAvailable == IsAvailable([closing |-> closing, shutdown |-> shutdown])

\* C37: closing and shutdown are never reset; in every state in which one of
\* them is set IsAvailable is false; a registerCall made then fails with
\* ErrShutdown and assigns no sequence number; and a Close made when closing
\* is set returns ErrShutdown and does not call the codec's Close, which is
\* called at most once.
C37_StatusMonotonic ==
  /\ [][(closing => closing') /\ (shutdown => shutdown')]_vars
  /\ []((closing \/ shutdown) => ~ClientIsAvailable)
  /\ [][\A c \in Calls :
          ((closing \/ shutdown) /\ pcCall[c] = "start" /\ pcCall'[c] # "start") =>
            /\ callErr'[c] = ErrShutdown
            /\ callSeq'[c] = 0
            /\ UNCHANGED <<seq, pending>>]_vars
  /\ [][(closing /\ closeRet' # closeRet) =>
          /\ closeRet' = ErrShutdown
          /\ UNCHANGED <<closing, shutdown, cliClosed, ccCloseCalls>>]_vars
  /\ [](closing <=> ccCloseCalls = 1)
  /\ [](ccCloseCalls <= 1)

\* the reader shut the client down, Close was called twice and the second
\* call got ErrShutdown, and a call made since was refused
C37_Witness ==
  /\ shutdown
  /\ closing
  /\ closeRet = ErrShutdown
  /\ ccCloseCalls = 1
  /\ \E c \in Calls : pcCall[c] # "start" /\ callSeq[c] = 0 /\ callErr[c] = ErrShutdown
  /\ \E c \in Calls : callSeq[c] # 0

(***************************************************************************)
(* Claims about the goroutines that handleRequest and dialTimeout start.   *)
(***************************************************************************)
\* the invocation goroutine of request k is at its send on the channel
\* called after handleRequest left the select through the timer: the channel
\* is unbuffered and nothing receives from it any more
InvocationStuck(k) == iPc[k] = "called" /\ ~CalledReceivable(hPc[k])

\* the goroutine of dialTimeout is at its send on the channel ch after
\* dialTimeout returned through the timer
ConstructionStuck == ncPc = "res" /\ dPc = "ret"

\* C38: no goroutine started by handleRequest or by dialTimeout is at a send
\* on a channel that nothing will receive from: the invocation goroutine gets
\* past its send on called once the method has returned, and the goroutine
\* that constructs the client gets past its send on ch, also when the timer
\* fired first.
C38_NoTaskBlockedForever ==
  /\ \A k \in Reqs : ~InvocationStuck(k)
  /\ ~ConstructionStuck

(***************************************************************************)
(* Claims about heartbeats and liveness together.                          *)
(***************************************************************************)
\* the heartbeats of the sender arrive with gaps shorter than the timeout
GapsShorter == regTimeout > 0 /\ hbPc = "loop" /\ hbDuration < regTimeout

\* the sender has stopped and its last heartbeat is a timeout or more ago
StoppedAndAged ==
  /\ regTimeout > 0
  /\ hbPc = "stopped"
  /\ HbAddr \in DOMAIN lastBeat
  /\ now >= lastBeat[HbAddr] + regTimeout

\* C39: with a timeout greater than zero, while the sender's heartbeats
\* arrive with gaps shorter than the timeout its address is in the mapping,
\* its last heartbeat is less than the timeout ago, and every liveness query
\* returns it and keeps it; an address leaves the mapping only when its last
\* heartbeat is the timeout or more ago; and once the sender has stopped, a
\* liveness query made at or after the last heartbeat plus the timeout does
\* not return the address and leaves the mapping without it.
C39_HeartbeatLiveness ==
  /\ [](GapsShorter =>
          /\ HbAddr \in DOMAIN servers
          /\ HbAddr \in DOMAIN lastBeat
          /\ now < lastBeat[HbAddr] + regTimeout)
  /\ [][(GapsShorter /\ RegistryServeHTTP(GetRequest)) =>
          /\ HbAddr \in Range(regResp'.alive)
          /\ HbAddr \in DOMAIN servers']_vars
  /\ [][(HbAddr \in DOMAIN servers /\ HbAddr \notin DOMAIN servers') =>
          /\ regTimeout > 0
          /\ now >= lastBeat[HbAddr] + regTimeout]_vars
  /\ [][(StoppedAndAged /\ RegistryServeHTTP(GetRequest)) =>
          /\ HbAddr \notin Range(regResp'.alive)
          /\ HbAddr \notin DOMAIN servers']_vars

\* the sender's third heartbeat failed after two that arrived a time unit
\* apart, and the query made a timeout after the second has dropped the
\* address, which an earlier query had returned
C39_Witness ==
  /\ regTimeout = 2
  /\ hbDuration = 1
  /\ hbPc = "stopped"
  /\ hbSent = 3
  /\ lastBeat[HbAddr] = 1
  /\ now = 3
  /\ regResp.Method = "GET"
  /\ regResp.alive = <<>>
  /\ HbAddr \notin DOMAIN servers

(***************************************************************************)
(* Specification: a client whose callers use Client.Go and supply the Done *)
(* channel: each call with a channel of its own or all calls with one      *)
(* channel, of capacity one or two. A caller receives from the channel     *)
(* when it likes. The connection may fail.                                 *)
(***************************************************************************)
InitGo ==
  /\ cliState = "up"
  /\ ccKind = "iface"
  /\ InitClientFields
  /\ InitConn
  /\ InitServerIdle
  /\ InitCodecIdle
  /\ InitHandlerIdle
  /\ InitDialIdle
  /\ InitClusterIdle
  /\ InitAllocIdle
  /\ InitSendIdle
  /\ InitCloseIdle
  /\ doneChan \in {[c \in Calls |-> c], [c \in Calls |-> 1]}
  /\ doneCap \in {[ch \in Calls |-> DoneCap], [ch \in Calls |-> DoneCap + 1]}
  /\ termPc = "none"
  /\ termLeft = {}

NextGo ==
  \/ \E c \in Calls : SendRegister(c)
  \/ \E c \in Calls : SendWrite(c)
  \/ \E c \in Calls : SendWriteFail(c)
  \/ \E c \in Calls : CallDone(c)
  \/ RecvReadHeader
  \/ RecvRemoveCall
  \/ RecvBody
  \/ TermLock
  \/ \E c \in Calls : TermSignal(c)
  \/ TermUnlock
  \/ \E m \in PeerMsgs : PeerSend(m)
  \/ ConnFail

SpecGo == InitGo /\ [][NextGo]_vars

(***************************************************************************)
(* Claims about the completion signal.                                     *)
(***************************************************************************)
\* the response reader is at call.done() for the call it removed
ReaderAtSignal == pcRecv = "body" /\ rcall # NoCall

\* C40: whenever the response reader or terminateCalls is at the send on a
\* call's Done channel, the channel has room, whichever buffered channel the
\* caller supplied and however many calls share it; so the send completes
\* and terminateCalls, which holds client.sending and client.mu, goes on to
\* release them.
C40_SignalNeverBlocks ==
  /\ ReaderAtSignal => CanSignal(rcall)
  /\ termPc = "locked" => \A c \in termLeft : CanSignal(c)

====
